---- MODULE Spec2Model ----
(***************************************************************************)
(* Jamf-Monitor backend: the token manager and API client of               *)
(* JamfAPIService (app/services/jamf_service.py), the device evaluation of *)
(* HealthCheckService (app/services/health_service.py) and the device      *)
(* cache of DeviceCacheRepository (app/core/repositories.py).              *)
(*                                                                         *)
(* Time is in seconds.  Python's None is None (the empty tuple), a value v *)
(* of an Optional is Some(v).                                              *)
(***************************************************************************)
EXTENDS Integers, Sequences, FiniteSets, TLC

\* ------------------------------------------------------------------ bounds
NumCallers == 2
MaxTicks == 1
TickSeconds == 60
MaxCalls == 2
MaxEvaluations == 2
MaxEvalTicks == 1
NumSessions == 2
MaxCacheOps == 2
MaxOverlapOps == 3
MaxCacheTicks == 1
MaxBulks == 2
MaxSettingsRequests == 3

\* ------------------------------------------------------- program constants
MarginMinutes == 5
check_in_threshold_hours == 24
recon_threshold_hours == 24
pending_command_threshold_hours == 6
cache_ttl_seconds == 300
HTTP_401_UNAUTHORIZED == 401
HTTP_404_NOT_FOUND == 404
HTTP_502_BAD_GATEWAY == 502
HTTP_503_SERVICE_UNAVAILABLE == 503
HTTP_504_GATEWAY_TIMEOUT == 504

\* Optional[T]: None, or a value
None == <<>>
Some(v) == <<v>>
\* the empty string as a token value; issued tokens are 1, 2, ...
EmptyStr == 0

Callers == 1..NumCallers

\* timedelta(minutes=5), in seconds
Margin == MarginMinutes * 60

\* Python truthiness of self._token (Optional[str])
Truthy(t) == t # None /\ t[1] # EmptyStr

\* an exception leaving a coroutine, and a value returned by it
Raise(exc, code, detail) ==
    [outcome |-> "raise", exc |-> exc, status |-> code, detail |-> detail, value |-> None]
Return(v) ==
    [outcome |-> "return", exc |-> "", status |-> 200, detail |-> "", value |-> Some(v)]
NoResult == [outcome |-> "none", exc |-> "", status |-> 0, detail |-> "", value |-> None]

HTTPException(code, detail) == Raise("HTTPException", code, detail)
KeyError(key) == Raise("KeyError", 0, key)

\* ------------------------------------------------- the token endpoint's answers
\* a transport error, a non-200 status, or a 200 whose JSON body has or lacks
\* "access_token" and "expires_in"; EmptyBody's access_token is the empty string
ExpiresInChoices == {300, 360}
TokenResponses ==
    {[kind |-> "request_error", expires_in |-> 0], [kind |-> "non_200", expires_in |-> 0],
     [kind |-> "no_access_token", expires_in |-> 360],
     [kind |-> "no_expires_in", expires_in |-> 0],
     [kind |-> "empty_token", expires_in |-> 420]}
    \cup {[kind |-> "ok", expires_in |-> s] : s \in ExpiresInChoices}

\* ------------------------------------------------------ the API's answers
\* the five read operations of the client
Operations == {"get_all_computers", "get_computer_detail", "get_failed_policies",
               "get_mdm_commands", "get_computer_group_membership"}

\* dict.get(key, default) on an Optional field
GetOr(field, default) == IF field = None THEN default ELSE field[1]

\* a date string of the API: ISO 8601 with "Z" or an offset, ISO 8601 without
\* a zone, or text that is no date; t is the instant it denotes
DateString(fmt, t) == [fmt |-> fmt, t |-> t]

\* JSON bodies of the 200 answers, one set per endpoint
InventoryBodies ==
    {[results |-> None], [results |-> Some(<<[id |-> 1]>>)],
     [results |-> Some(<<[id |-> 1], [id |-> 2]>>)]}
General(name, contact, inventory) ==
    [name |-> name, serialNumber |-> IF name = None THEN None ELSE Some("SN1"),
     modelIdentifier |-> None, operatingSystemVersion |-> Some("14.1"),
     lastContactTime |-> contact, lastInventoryUpdateTimestamp |-> inventory]
DetailBodies ==
    {[general |-> None],
     [general |-> Some(General(Some("mac1"), Some(DateString("iso_z", -3600)),
                               Some(DateString("iso_z", -3600))))],
     [general |-> Some(General(None, Some(DateString("iso_z", -90000)), None))]}
ManagementBodies ==
    {[policies |-> None], [policies |-> Some(<<[failed |-> Some(FALSE)]>>)],
     [policies |-> Some(<<[failed |-> None], [failed |-> Some(TRUE)]>>)]}
CommandBodies ==
    {[results |-> None],
     [results |-> Some(<<[status |-> Some("Failed"), dateIssued |-> None]>>)],
     [results |-> Some(<<[status |-> Some("Pending"),
                          dateIssued |-> Some(DateString("iso_z", -30000))],
                         [status |-> Some("Acknowledged"), dateIssued |-> None]>>)]}
GroupBodies ==
    {[memberships |-> None], [memberships |-> Some(<<[name |-> Some("Compliance")]>>)],
     [memberships |-> Some(<<[name |-> Some("Watch")], [name |-> None]>>)]}

Bodies(o) ==
    CASE o = "get_all_computers" -> InventoryBodies
      [] o = "get_computer_detail" -> DetailBodies
      [] o = "get_failed_policies" -> ManagementBodies
      [] o = "get_mdm_commands" -> CommandBodies
      [] o = "get_computer_group_membership" -> GroupBodies

\* what the API may answer to a request: a status with its body, no answer
\* within 30 s, or a transport error
ErrorStatuses == {HTTP_401_UNAUTHORIZED, HTTP_404_NOT_FOUND, 500}
ApiResponses(o) ==
    {[kind |-> "timeout", status_code |-> 0, body |-> None],
     [kind |-> "request_error", status_code |-> 0, body |-> None]}
    \cup {[kind |-> "status", status_code |-> s, body |-> None] : s \in ErrorStatuses}
    \cup {[kind |-> "status", status_code |-> 200, body |-> Some(b)] : b \in Bodies(o)}

\* _make_request without the 401 branch: the 401 answer is returned like any other
make_request_returns_401(r) ==
    CASE r.kind = "timeout" ->
            HTTPException(HTTP_504_GATEWAY_TIMEOUT, "Jamf Pro request timed out")
      [] r.kind = "request_error" ->
            HTTPException(HTTP_503_SERVICE_UNAVAILABLE, "Error communicating with Jamf Pro")
      [] OTHER -> Return(r)

\* jamf_service.py:92-114: what _make_request does with the API's answer:
\* a 401, a timeout and a transport error raise, every other answer is returned
make_request(r) ==
    CASE r.kind = "timeout" ->
            HTTPException(HTTP_504_GATEWAY_TIMEOUT, "Jamf Pro request timed out")
      [] r.kind = "request_error" ->
            HTTPException(HTTP_503_SERVICE_UNAVAILABLE, "Error communicating with Jamf Pro")
      [] r.kind = "status" /\ r.status_code = 401 ->
            HTTPException(HTTP_401_UNAUTHORIZED, "Jamf authentication failed")
      [] OTHER -> Return(r)

get_all_computers(r) ==
    IF r.status_code # 200
    THEN HTTPException(HTTP_502_BAD_GATEWAY, "Failed to retrieve computers from Jamf Pro")
    ELSE Return(GetOr(r.body[1].results, <<>>))

get_computer_detail(r) ==
    IF r.status_code = 404
    THEN HTTPException(HTTP_404_NOT_FOUND, "Computer not found")
    ELSE IF r.status_code # 200
    THEN HTTPException(HTTP_502_BAD_GATEWAY, "Failed to retrieve computer details")
    ELSE Return(r.body[1])

\* a non-200 answer gives the empty dict
get_computer_management(r) ==
    IF r.status_code # 200
    THEN Return([policies |-> None])
    ELSE Return(r.body[1])

get_failed_policies(r) ==
    LET management_data == get_computer_management(r).value[1]
        IsFailed(policy) == GetOr(policy.failed, FALSE)
    IN  Return(SelectSeq(GetOr(management_data.policies, <<>>), IsFailed))

\* a non-200 answer gives no failed and no pending command
get_mdm_commands(r) ==
    IF r.status_code # 200
    THEN Return([failed |-> <<>>, pending |-> <<>>])
    ELSE LET commands == GetOr(r.body[1].results, <<>>)
             IsFailed(cmd) == cmd.status = Some("Failed")
             IsPending(cmd) == cmd.status \in {Some("Pending"), Some("InProgress")}
         IN  Return([failed |-> SelectSeq(commands, IsFailed),
                     pending |-> SelectSeq(commands, IsPending)])

\* a non-200 answer gives no group
get_computer_group_membership(r) ==
    IF r.status_code # 200
    THEN Return(<<>>)
    ELSE LET groups == GetOr(r.body[1].memberships, <<>>)
             HasName(g) == g.name # None /\ g.name # Some("")
             named == SelectSeq(groups, HasName)
         IN  Return([i \in 1..Len(named) |-> named[i].name[1]])

\* the operation's handling of the answer _make_request returned
operation_result(o, r) ==
    CASE o = "get_all_computers" -> get_all_computers(r)
      [] o = "get_computer_detail" -> get_computer_detail(r)
      [] o = "get_failed_policies" -> get_failed_policies(r)
      [] o = "get_mdm_commands" -> get_mdm_commands(r)
      [] o = "get_computer_group_membership" -> get_computer_group_membership(r)

\* ------------------------------------------------ health_service.py, device.py
DeviceIds == {1, 2}

\* timedelta(hours=h), in seconds
Hours(h) == h * 3600

\* a datetime: its instant and whether it carries a zone (tzinfo)
DateTime(t, aware) == [t |-> t, tzinfo |-> aware]

\* health_service.py:277-287: a missing, empty or unreadable date string
\* gives None; fromisoformat gives an aware datetime for a string with "Z"
\* or an offset and a naive datetime for a string without a zone
parse_jamf_date(date_string) ==
    IF date_string = None THEN None
    ELSE IF date_string[1].fmt = "iso_z" THEN Some(DateTime(date_string[1].t, TRUE))
    ELSE IF date_string[1].fmt = "iso_naive" THEN Some(DateTime(date_string[1].t, FALSE))
    ELSE None

\* the comparison of a naive datetime with datetime.now(timezone.utc) - timedelta
CompareError == Raise("TypeError", 0, "can't compare offset-naive and offset-aware datetimes")

\* health_service.py:289-301
check_recent_contact(last_contact, threshold_hours, n) ==
    IF last_contact = None THEN Return(FALSE)
    ELSE IF ~last_contact[1].tzinfo THEN CompareError
    ELSE Return(last_contact[1].t > n - Hours(threshold_hours))

\* health_service.py:303-315
check_recent_recon(last_recon, threshold_hours, n) ==
    IF last_recon = None THEN Return(FALSE)
    ELSE IF ~last_recon[1].tzinfo THEN CompareError
    ELSE Return(last_recon[1].t > n - Hours(threshold_hours))

\* health_service.py:317-335: the commands are looked at in order; the first
\* one whose date is readable and is compared to be older, or cannot be
\* compared, ends the loop
check_pending_commands(pending_commands, threshold_hours, n) ==
    LET threshold == n - Hours(threshold_hours)
        cmd_date(i) == parse_jamf_date(pending_commands[i].dateIssued)
        Ends(i) == /\ cmd_date(i) # None
                   /\ (~cmd_date(i)[1].tzinfo \/ cmd_date(i)[1].t < threshold)
        ending == {i \in 1..Len(pending_commands) : Ends(i)}
        first == CHOOSE i \in ending : \A j \in ending : i <= j
    IN  IF ending = {} THEN Return(FALSE)
        ELSE IF ~cmd_date(first)[1].tzinfo THEN CompareError
        ELSE Return(TRUE)

\* a classification that looks at compliance and the groups first
calculate_status_caution_first(health) ==
    IF ~health.is_compliant \/ health.smart_group_memberships # <<>>
    THEN "CAUTION"
    ELSE IF \/ ~health.check_in_ok
            \/ ~health.recon_ok
            \/ health.has_failed_policies
            \/ health.has_failed_mdm_commands
            \/ health.has_pending_mdm_commands
    THEN "UNHEALTHY"
    ELSE "HEALTHY"

\* a classification that does not look at the matched groups
calculate_status_ignores_groups(health) ==
    IF \/ ~health.check_in_ok
       \/ ~health.recon_ok
       \/ health.has_failed_policies
       \/ health.has_failed_mdm_commands
       \/ health.has_pending_mdm_commands
    THEN "UNHEALTHY"
    ELSE IF ~health.is_compliant
    THEN "CAUTION"
    ELSE "HEALTHY"

\* device.py:32-45
calculate_status(health) ==
    IF \/ ~health.check_in_ok
       \/ ~health.recon_ok
       \/ health.has_failed_policies
       \/ health.has_failed_mdm_commands
       \/ health.has_pending_mdm_commands
    THEN "UNHEALTHY"
    ELSE IF ~health.is_compliant \/ health.smart_group_memberships # <<>>
    THEN "CAUTION"
    ELSE "HEALTHY"

\* HealthStatus.value, and HealthStatus(value)
status_value(status) ==
    CASE status = "HEALTHY" -> "healthy"
      [] status = "CAUTION" -> "caution"
      [] status = "UNHEALTHY" -> "unhealthy"
HealthStatus(value) ==
    CASE value = "healthy" -> "HEALTHY"
      [] value = "caution" -> "CAUTION"
      [] value = "unhealthy" -> "UNHEALTHY"

\* x in xs, for a list
InList(x, xs) == \E i \in 1..Len(xs) : xs[i] = x

\* health_service.py:149-159: DeviceBasicInfo from the detail answer
device_basic_info(computer_id, computer_detail) ==
    LET general == GetOr(computer_detail.general,
                         [name |-> None, serialNumber |-> None, modelIdentifier |-> None,
                          operatingSystemVersion |-> None, lastContactTime |-> None,
                          lastInventoryUpdateTimestamp |-> None])
    IN  [id |-> computer_id,
         name |-> GetOr(general.name, "Unknown"),
         serial_number |-> GetOr(general.serialNumber, "Unknown"),
         model |-> GetOr(general.modelIdentifier, "Unknown"),
         os_version |-> GetOr(general.operatingSystemVersion, "Unknown"),
         last_contact_time |-> parse_jamf_date(general.lastContactTime),
         last_inventory_update |-> parse_jamf_date(general.lastInventoryUpdateTimestamp)]

\* the memberships that are monitored, the compliance group among them
monitored_group_matches_keeps_compliance(group_memberships, monitored_groups, compliance_group) ==
    LET Matches(g) == InList(g, monitored_groups)
    IN  SelectSeq(group_memberships, Matches)

\* health_service.py:187-190
monitored_group_matches(group_memberships, monitored_groups, compliance_group) ==
    LET Matches(g) == InList(g, monitored_groups) /\ g # compliance_group
    IN  SelectSeq(group_memberships, Matches)

\* the select without the filter on expires_at
get_cached_device_unfiltered(rows, device_id, n) == rows[device_id]

\* repositories.py:130-139: the row of the device, if it has not expired
get_cached_device(table, device_id, n) ==
    IF table[device_id] # None /\ table[device_id][1].expires_at > n
    THEN table[device_id]
    ELSE None

\* repositories.py:168-203: the row cache_device_health writes for a record
cached_row(device_health, cached_at, expires_at) ==
    [device_id |-> device_health.device.id,
     device_name |-> device_health.device.name,
     serial_number |-> device_health.device.serial_number,
     model |-> device_health.device.model,
     os_version |-> device_health.device.os_version,
     last_contact_time |-> device_health.device.last_contact_time,
     last_inventory_update |-> device_health.device.last_inventory_update,
     check_in_ok |-> device_health.health.check_in_ok,
     recon_ok |-> device_health.health.recon_ok,
     has_failed_policies |-> device_health.health.has_failed_policies,
     has_failed_mdm_commands |-> device_health.health.has_failed_mdm_commands,
     has_pending_mdm_commands |-> device_health.health.has_pending_mdm_commands,
     is_compliant |-> device_health.health.is_compliant,
     smart_group_memberships |-> device_health.health.smart_group_memberships,
     status |-> status_value(device_health.status),
     cached_at |-> cached_at,
     expires_at |-> expires_at]

\* health_service.py:246-275
device_health_from_cache(cached) ==
    [device |-> [id |-> cached.device_id,
                 name |-> cached.device_name,
                 serial_number |-> cached.serial_number,
                 model |-> cached.model,
                 os_version |-> cached.os_version,
                 last_contact_time |-> cached.last_contact_time,
                 last_inventory_update |-> cached.last_inventory_update],
     health |-> [check_in_ok |-> cached.check_in_ok,
                 recon_ok |-> cached.recon_ok,
                 has_failed_policies |-> cached.has_failed_policies,
                 has_failed_mdm_commands |-> cached.has_failed_mdm_commands,
                 has_pending_mdm_commands |-> cached.has_pending_mdm_commands,
                 is_compliant |-> cached.is_compliant,
                 smart_group_memberships |-> cached.smart_group_memberships],
     status |-> HealthStatus(cached.status),
     last_checked |-> cached.cached_at]

VARIABLES
    now,          \* datetime.now(timezone.utc), seconds
    ticks,        \* clock advances so far
    token,        \* JamfAPIService._token
    token_expiry, \* JamfAPIService._token_expiry
    lock,         \* holder of JamfAPIService._lock, 0 when free
    waiters,      \* FIFO of the callers suspended in _lock.acquire()
    pc,           \* where each caller is
    op,           \* the read operation each caller runs
    bearer,       \* the token each caller's request carries
    last,         \* the operation that ended in the latest step, if one did
    nextToken,    \* the next token value the token endpoint issues
    requests,     \* API requests sent by each caller's current operation
    calls,        \* operations started by StartOperation so far
    rejected,     \* tokens the API has answered 401 to
    hist,         \* history of each caller's current _get_token call
    burst,        \* history of the current group of concurrent _get_token calls
    config,       \* thresholds, compliance group and monitored groups in force
    cache,        \* table cached_device_health: the row of each device id, or None
    ev,           \* the check_device_health call each caller is in
    evlast,       \* the evaluation that ended in the latest step, if one did
    written,      \* the record last handed to cache_device_health, per device
    evaluations,  \* evaluations started so far
    table,        \* the committed rows of cached_device_health, per device id
    sess,         \* the database session of each request: its uncommitted writes
    slast,        \* the repository call that ended in the latest step, if one did
    cacheops,     \* repository writes (puts and sweeps) started so far
    latest,       \* per device, the row the cache_device_health committed last meant to write
    complete,     \* per device, the rows the calls of cache_device_health meant to write
    clock_reads,  \* what datetime.now() gave the comparisons of the evaluation
    mdm_results,  \* the commands the API listed to the evaluation
    durable,      \* the configuration behind a service with a database session
    volatile,     \* the configuration behind a service without one
    setlast,      \* the settings request that ended in the latest step, if one did
    setcalls,     \* settings requests so far
    thr,          \* the requests that update the thresholds, by session
    returned,     \* the values of the set_thresholds call that returned last
    twritten,     \* the record of each committed row
    bulk,         \* the check_all_devices call of the list request
    blast         \* the list request that ended in the latest step, if one did

clientVars == <<token, token_expiry, lock, waiters, pc, op, bearer, last,
                nextToken, requests, calls, rejected, hist, burst>>
evalVars == <<config, cache, ev, evlast, written, evaluations>>
repoVars == <<table, sess, slast, cacheops, latest, complete>>
bulkVars == <<twritten, bulk, blast>>
sigVars == <<clock_reads, mdm_results>>
setVars == <<durable, volatile, setlast, setcalls, thr, returned>>
vars == <<now, ticks, clientVars, evalVars, repoVars, bulkVars, sigVars, setVars>>

NoHist == [arrived_in_flight |-> FALSE, clean |-> TRUE, exchanged |-> 0,
           from_cache |-> FALSE, returned |-> FALSE, left |-> None]
NoLast == [caller |-> 0, op |-> "none", kind |-> "none", status_code |-> 0,
           requests |-> 0, result |-> NoResult]
NoBurst == [members |-> {}, inside |-> {}, exchanges |-> 0, clean |-> TRUE,
            all_ok |-> TRUE]

NoSignals == [check_in_ok |-> FALSE, recon_ok |-> FALSE, has_failed_policies |-> FALSE,
              has_failed_mdm_commands |-> FALSE, has_pending_mdm_commands |-> FALSE,
              is_compliant |-> FALSE]
NoEval == [stage |-> "idle", computer_id |-> 0, use_cache |-> FALSE,
           device_info |-> None, thresholds |-> None, signals |-> NoSignals,
           group_memberships |-> <<>>, compliance_group |-> None,
           device_health |-> None, expires_at |-> None, pending |-> None,
           upstream |-> 0, fetch_failed |-> FALSE, cache_before |-> None,
           settings_before |-> 0]
NoEvLast == [caller |-> 0, computer_id |-> 0, use_cache |-> FALSE, from_cache |-> FALSE,
             upstream |-> 0, fetch_failed |-> FALSE, cache_before |-> None,
             wrote |-> FALSE, result |-> NoResult]

\* database.py:43: a session with no uncommitted write; writes[d] is None
\* (no write), Some(None) (row deleted) or Some(Some(row)) (row written)
Sessions == 1..NumSessions
NoSession == [stage |-> "idle", writes |-> [d \in DeviceIds |-> None],
              intended |-> [d \in DeviceIds |-> None],
              put |-> None, expired |-> {}, swept_at |-> 0]
NoSLast == [session |-> 0, op |-> "none", device_id |-> 0, result |-> NoResult,
            entry |-> None]
\* health_service.py:219-244: the locals of check_all_devices; started counts
\* the list requests, evaluated[k] is the time the evaluation that produced
\* results[k] was made, wrote the devices whose row the request has written,
\* hits the devices whose record it took from the cache
NoBulk == [stage |-> "idle", started |-> 0, use_cache |-> FALSE,
           computers |-> <<>>, i |-> 0, results |-> <<>>, errors |-> <<>>,
           evaluated |-> <<>>, wrote |-> {}, hits |-> {}]
NoBLast == [kind |-> "none", use_cache |-> FALSE, status_filter |-> None,
            result |-> NoResult, computers |-> <<>>,
            results |-> <<>>, errors |-> <<>>, evaluated |-> <<>>,
            wrote |-> {}, hits |-> {}, view |-> [d \in DeviceIds |-> None]]

\* ------------------------------------------- the configuration and its store
\* the status of the answer to a request whose body fails validation
HTTP_422_UNPROCESSABLE_ENTITY == 422

\* a model that takes every value
HealthThresholds_unchecked(check_in_hours, recon_hours, pending_command_hours) ==
    Return([check_in_hours |-> check_in_hours, recon_hours |-> recon_hours,
            pending_command_hours |-> pending_command_hours])

\* device.py:63-66: the fields are validated when the model is built
HealthThresholds(check_in_hours, recon_hours, pending_command_hours) ==
    IF /\ check_in_hours \in 1..168
       /\ recon_hours \in 1..168
       /\ pending_command_hours \in 1..72
    THEN Return([check_in_hours |-> check_in_hours, recon_hours |-> recon_hours,
                 pending_command_hours |-> pending_command_hours])
    ELSE Raise("ValidationError", 0, "Input should be in range")

\* json.dumps and json.loads of a list of strings: the text is the bracketed
\* sequence of its items; a text that is not bracketed is no JSON
json_dumps(groups) == <<"[">> \o groups \o <<"]">>
json_loads(text) ==
    IF Len(text) >= 2 /\ text[1] = "[" /\ text[Len(text)] = "]"
    THEN Return(SubSeq(text, 2, Len(text) - 1))
    ELSE Raise("JSONDecodeError", 0, "Expecting value")

\* repositories.py:23-31
get_setting(db, key) == db.application_settings[key]

\* repositories.py:33-49
set_setting(db, key, value) == [db EXCEPT !.application_settings[key] = Some(value)]

\* repositories.py:51-60: scalar_one_or_none of the active rows
get_health_thresholds(db) ==
    LET IsActive(row) == row.is_active
        active == SelectSeq(db.health_thresholds, IsActive)
    IN  IF Len(active) = 0 THEN Return(None)
        ELSE IF Len(active) = 1 THEN Return(Some(active[1]))
        ELSE Raise("MultipleResultsFound", 0, "Multiple rows were found")

\* repositories.py:62-88: the active rows are deactivated, a new one is added
update_health_thresholds(db, check_in_hours, recon_hours, pending_command_hours) ==
    LET rows == db.health_thresholds
        new_threshold == [check_in_hours |-> check_in_hours, recon_hours |-> recon_hours,
                          pending_command_hours |-> pending_command_hours,
                          is_active |-> TRUE]
    IN  [db EXCEPT !.health_thresholds =
            Append([i \in DOMAIN rows |-> [rows[i] EXCEPT !.is_active = FALSE]],
                   new_threshold)]

\* repositories.py:90-95
get_compliance_group(db) ==
    LET value == get_setting(db, "compliance_group")
    IN  IF value # None /\ value[1] # "" THEN value[1] ELSE "Compliance"

\* repositories.py:97-101
set_compliance_group(db, group_name) == set_setting(db, "compliance_group", group_name)

\* repositories.py:103-113
repo_get_monitored_groups(db) ==
    LET value == get_setting(db, "monitored_groups")
    IN  IF value # None /\ value[1] # <<>>
        THEN LET loaded == json_loads(value[1])
             IN  IF loaded.outcome = "raise" THEN <<>> ELSE loaded.value[1]
        ELSE <<>>

\* repositories.py:115-119
repo_set_monitored_groups(db, groups) ==
    set_setting(db, "monitored_groups", json_dumps(groups))

\* health_service.py:22-48: a service, with the database its session reaches
\* (db is None without a session), the settings object and its own fields
Service(db) ==
    [db |-> db,
     settings |-> [check_in_threshold_hours |-> check_in_threshold_hours,
                   recon_threshold_hours |-> recon_threshold_hours,
                   pending_command_threshold_hours |-> pending_command_threshold_hours],
     compliance_group_name |-> "Compliance",
     monitored_groups |-> <<>>]
\* db_models.py:7-36: the two tables, empty
EmptyDatabase ==
    [health_thresholds |-> <<>>,
     application_settings |-> [compliance_group |-> None, monitored_groups |-> None]]
DurableService == Service(Some(EmptyDatabase))
VolatileService == Service(None)

\* health_service.py:50-67
get_thresholds(S) ==
    LET defaults == HealthThresholds(S.settings.check_in_threshold_hours,
                                     S.settings.recon_threshold_hours,
                                     S.settings.pending_command_threshold_hours)
    IN  IF S.db = None THEN defaults
        ELSE LET db_thresholds == get_health_thresholds(S.db[1])
             IN  IF db_thresholds.outcome = "raise" THEN db_thresholds
                 ELSE IF db_thresholds.value[1] = None THEN defaults
                 ELSE HealthThresholds(db_thresholds.value[1][1].check_in_hours,
                                       db_thresholds.value[1][1].recon_hours,
                                       db_thresholds.value[1][1].pending_command_hours)

\* a setter that fills the omitted arguments from the defaults of the settings
set_thresholds_from_defaults(S, check_in_hours, recon_hours, pending_command_hours) ==
    LET current == get_thresholds(S)
    IN  IF current.outcome = "raise" THEN [result |-> current, state |-> S]
        ELSE LET new_check_in == IF check_in_hours # None THEN check_in_hours[1]
                                 ELSE S.settings.check_in_threshold_hours
                 new_recon == IF recon_hours # None THEN recon_hours[1]
                              ELSE S.settings.recon_threshold_hours
                 new_pending == IF pending_command_hours # None
                                THEN pending_command_hours[1]
                                ELSE S.settings.pending_command_threshold_hours
             IN  [result |-> Return(None),
                  state |->
                     IF S.db # None
                     THEN [S EXCEPT !.db = Some(update_health_thresholds(
                                                 S.db[1], new_check_in, new_recon,
                                                 new_pending))]
                     ELSE [S EXCEPT !.settings =
                              [check_in_threshold_hours |-> new_check_in,
                               recon_threshold_hours |-> new_recon,
                               pending_command_threshold_hours |-> new_pending]]]

\* health_service.py:69-98: the result and the service after the call
set_thresholds(S, check_in_hours, recon_hours, pending_command_hours) ==
    LET current == get_thresholds(S)
    IN  IF current.outcome = "raise" THEN [result |-> current, state |-> S]
        ELSE LET new_check_in == IF check_in_hours # None THEN check_in_hours[1]
                                 ELSE current.value[1].check_in_hours
                 new_recon == IF recon_hours # None THEN recon_hours[1]
                              ELSE current.value[1].recon_hours
                 new_pending == IF pending_command_hours # None
                                THEN pending_command_hours[1]
                                ELSE current.value[1].pending_command_hours
             IN  [result |-> Return(None),
                  state |->
                     IF S.db # None
                     THEN [S EXCEPT !.db = Some(update_health_thresholds(
                                                 S.db[1], new_check_in, new_recon,
                                                 new_pending))]
                     ELSE [S EXCEPT !.settings =
                              [check_in_threshold_hours |-> new_check_in,
                               recon_threshold_hours |-> new_recon,
                               pending_command_threshold_hours |-> new_pending]]]

\* health_service.py:100-106
get_compliance_group_name(S) ==
    IF S.db # None THEN get_compliance_group(S.db[1]) ELSE S.compliance_group_name

\* health_service.py:108-115
set_compliance_group_name(S, name) ==
    IF S.db # None
    THEN [S EXCEPT !.db = Some(set_compliance_group(S.db[1], name))]
    ELSE [S EXCEPT !.compliance_group_name = name]

\* health_service.py:117-123
get_monitored_groups(S) ==
    IF S.db # None THEN repo_get_monitored_groups(S.db[1]) ELSE S.monitored_groups

\* health_service.py:125-132
set_monitored_groups(S, groups) ==
    IF S.db # None
    THEN [S EXCEPT !.db = Some(repo_set_monitored_groups(S.db[1], groups))]
    ELSE [S EXCEPT !.monitored_groups = groups]

\* settings.py:34-49: a body out of range is refused before the handler runs
update_thresholds(S, body) ==
    LET thresholds == HealthThresholds(body.check_in_hours, body.recon_hours,
                                       body.pending_command_hours)
    IN  IF thresholds.outcome = "raise"
        THEN [result |-> Raise("RequestValidationError", HTTP_422_UNPROCESSABLE_ENTITY,
                               thresholds.detail),
              state |-> S]
        ELSE LET set == set_thresholds(S, Some(thresholds.value[1].check_in_hours),
                                       Some(thresholds.value[1].recon_hours),
                                       Some(thresholds.value[1].pending_command_hours))
             IN  IF set.result.outcome = "raise" THEN set
                 ELSE [result |-> get_thresholds(set.state), state |-> set.state]

\* settings.py:52-66, 84-90: the answer of the monitored-groups routes
monitored_groups_response(S) ==
    [compliance_group |-> get_compliance_group_name(S),
     monitored_groups |-> get_monitored_groups(S)]

\* settings.py:69-91: the keys the body has are set, then both are read
update_monitored_groups(S, groups) ==
    LET named == IF groups.compliance_group # None
                 THEN set_compliance_group_name(S, groups.compliance_group[1])
                 ELSE S
        listed == IF groups.monitored_groups # None
                  THEN set_monitored_groups(named, groups.monitored_groups[1])
                  ELSE named
    IN  [result |-> Return(monitored_groups_response(listed)), state |-> listed]

\* database.py:43-51: the session commits when the request ends, and rolls
\* back when it ends with an exception; fields in memory stay as they are
request_end(S, out) ==
    IF out.result.outcome = "raise" THEN [out.state EXCEPT !.db = S.db] ELSE out.state

\* a request that has not begun to update the thresholds
NoWriter == [stage |-> "idle", body |-> None, snapshot |-> <<>>, writes |-> None,
             result |-> NoResult]

NoSetLast == [route |-> "none", body |-> None, before |-> None,
              result |-> NoResult, volatile_result |-> NoResult]

\* config.py:15-17 and health_service.py:29-30: the configuration at start
DefaultConfig ==
    [thresholds |-> [check_in_hours |-> check_in_threshold_hours,
                     recon_hours |-> recon_threshold_hours,
                     pending_command_hours |-> pending_command_threshold_hours],
     compliance_group |-> "Compliance",
     monitored_groups |-> <<>>]

\* callers inside _get_token: waiting for the lock or holding it
InGetToken == {c \in Callers : pc[c] \in {"lock_wait", "exchange"}}

Init ==
    /\ now = 0
    /\ ticks = 0
    /\ token = None
    /\ token_expiry = None
    /\ lock = 0
    /\ waiters = <<>>
    /\ pc = [c \in Callers |-> "idle"]
    /\ op = [c \in Callers |-> "none"]
    /\ bearer = [c \in Callers |-> None]
    /\ last = NoLast
    /\ nextToken = 1
    /\ requests = [c \in Callers |-> 0]
    /\ calls = 0
    /\ rejected = {}
    /\ hist = [c \in Callers |-> NoHist]
    /\ burst = NoBurst
    /\ config = DefaultConfig
    /\ cache = [d \in DeviceIds |-> None]
    /\ ev = [c \in Callers |-> NoEval]
    /\ evlast = NoEvLast
    /\ written = [d \in DeviceIds |-> None]
    /\ evaluations = 0
    /\ table = [d \in DeviceIds |-> None]
    /\ sess = [c \in Sessions |-> NoSession]
    /\ slast = NoSLast
    /\ cacheops = 0
    /\ latest = [d \in DeviceIds |-> None]
    /\ complete = [d \in DeviceIds |-> {}]
    /\ twritten = [d \in DeviceIds |-> None]
    /\ clock_reads = <<>>
    /\ mdm_results = <<>>
    /\ durable = DurableService
    /\ volatile = VolatileService
    /\ setlast = NoSetLast
    /\ setcalls = 0
    /\ thr = [s \in Sessions |-> NoWriter]
    /\ returned = None
    /\ bulk = NoBulk
    /\ blast = NoBLast

\* the check with twice the margin
token_is_valid_wide_margin(t, e, n) ==
    /\ Truthy(t)
    /\ e # None
    /\ n < e[1] - 2 * Margin

\* jamf_service.py:35-36: the cached token is still good for more than 5 minutes
token_is_valid(t, e, n) ==
    /\ Truthy(t)
    /\ e # None
    /\ n < e[1] - Margin

\* _get_token from the moment the lock is taken (nothing awaits between the
\* acquisition and the check): return the cached token, or send the exchange
\* and keep the lock while it is in flight.  h, b: the histories to extend.
LockedSection(c, h, b) ==
    IF token_is_valid(token, token_expiry, now)
    THEN \* return self._token; _make_request sends the request with it
         /\ lock' = 0
         /\ pc' = [pc EXCEPT ![c] = "request"]
         /\ bearer' = [bearer EXCEPT ![c] = token]
         /\ requests' = [requests EXCEPT ![c] = 1]
         /\ hist' = [hist EXCEPT ![c] =
                [h EXCEPT !.from_cache = TRUE, !.returned = TRUE,
                          !.left = Some(token_expiry[1] - now)]]
         /\ burst' = [b EXCEPT !.inside = @ \ {c}]
         /\ UNCHANGED <<token, token_expiry>>
    ELSE \* client.post(".../api/oauth/token") is awaited under the lock
         /\ lock' = c
         /\ pc' = [pc EXCEPT ![c] = "exchange"]
         /\ hist' = [hist EXCEPT ![c] = [h EXCEPT !.exchanged = @ + 1]]
         /\ burst' = IF c \in b.members THEN [b EXCEPT !.exchanges = @ + 1] ELSE b
         /\ requests' = [requests EXCEPT ![c] = 0]
         /\ UNCHANGED <<token, token_expiry, bearer>>

\* a caller starts one of the read operations: _make_request awaits
\* _get_token, which takes the lock at once when it is free and nobody waits
\* for it, and queues behind the waiters otherwise
Call(c, o) ==
    /\ pc[c] = "idle"
    /\ op' = [op EXCEPT ![c] = o]
    /\ LET h == [NoHist EXCEPT !.arrived_in_flight = (lock # 0)]
           b == IF InGetToken = {}
                THEN IF token_is_valid(token, token_expiry, now)
                     THEN NoBurst
                     ELSE [NoBurst EXCEPT !.members = {c}, !.inside = {c}]
                ELSE IF burst.inside # {}
                     THEN [burst EXCEPT !.members = @ \cup {c}, !.inside = @ \cup {c}]
                     ELSE burst
       IN IF lock = 0 /\ waiters = <<>>
          THEN /\ LockedSection(c, h, b)
               /\ UNCHANGED waiters
          ELSE /\ waiters' = Append(waiters, c)
               /\ pc' = [pc EXCEPT ![c] = "lock_wait"]
               /\ hist' = [hist EXCEPT ![c] = h]
               /\ burst' = b
               /\ requests' = [requests EXCEPT ![c] = 0]
               /\ UNCHANGED <<token, token_expiry, lock, bearer>>
    /\ last' = NoLast
    /\ UNCHANGED <<now, ticks, nextToken, rejected>>

\* the lock is free: the first waiter is woken and runs the locked section
Wake(c) ==
    /\ lock = 0
    /\ waiters # <<>>
    /\ Head(waiters) = c
    /\ waiters' = Tail(waiters)
    /\ LockedSection(c, hist[c], burst)
    /\ last' = NoLast
    /\ UNCHANGED <<now, ticks, op, nextToken, calls, rejected>>

\* jamf_service.py:53-74: the token endpoint answers the exchange of c, which
\* leaves the locked section by a return or by an exception
get_token_exit(r) ==
    CASE r.kind = "request_error" ->
            [token |-> token, token_expiry |-> token_expiry, issued |-> FALSE,
             exit |-> HTTPException(HTTP_503_SERVICE_UNAVAILABLE, "Unable to connect to Jamf Pro")]
      [] r.kind = "non_200" ->
            [token |-> token, token_expiry |-> token_expiry, issued |-> FALSE,
             exit |-> HTTPException(HTTP_503_SERVICE_UNAVAILABLE,
                                    "Failed to authenticate with Jamf Pro")]
      [] r.kind = "no_access_token" ->
            [token |-> token, token_expiry |-> token_expiry, issued |-> FALSE,
             exit |-> KeyError("access_token")]
      [] r.kind = "no_expires_in" ->
            \* line 61 has stored the token when line 63 raises
            [token |-> Some(nextToken), token_expiry |-> token_expiry, issued |-> TRUE,
             exit |-> KeyError("expires_in")]
      [] r.kind = "empty_token" ->
            [token |-> Some(EmptyStr), token_expiry |-> Some(now + r.expires_in),
             issued |-> FALSE, exit |-> Return(Some(EmptyStr))]
      [] r.kind = "ok" ->
            [token |-> Some(nextToken), token_expiry |-> Some(now + r.expires_in),
             issued |-> TRUE, exit |-> Return(Some(nextToken))]

\* an exchange that gives the lock back only when it returns a token
TokenRespond_keeps_lock(c, r) ==
    /\ pc[c] = "exchange"
    /\ lock = c
    /\ LET x == get_token_exit(r)
       IN  /\ token' = x.token
           /\ token_expiry' = x.token_expiry
           /\ nextToken' = IF x.issued THEN nextToken + 1 ELSE nextToken
           /\ lock' = IF x.exit.outcome = "return" THEN 0 ELSE lock
           /\ burst' = [burst EXCEPT !.inside = @ \ {c},
                                     !.all_ok = @ /\ (c \in burst.members => r.kind = "ok")]
           /\ IF x.exit.outcome = "return"
              THEN \* _make_request sends the request with the new token
                   /\ pc' = [pc EXCEPT ![c] = "request"]
                   /\ bearer' = [bearer EXCEPT ![c] = x.exit.value[1]]
                   /\ requests' = [requests EXCEPT ![c] = 1]
                   /\ hist' = [hist EXCEPT ![c] =
                        [@ EXCEPT !.returned = TRUE,
                                  !.left = Some(x.token_expiry[1] - now)]]
                   /\ last' = NoLast
                   /\ UNCHANGED op
              ELSE \* the exception ends _make_request and the operation
                   /\ pc' = [pc EXCEPT ![c] = "idle"]
                   /\ op' = [op EXCEPT ![c] = "none"]
                   /\ last' = [caller |-> c, op |-> op[c], kind |-> "none",
                               status_code |-> 0, requests |-> requests[c],
                               result |-> x.exit]
                   /\ hist' = [hist EXCEPT ![c] = NoHist]
                   /\ UNCHANGED <<bearer, requests>>
    /\ UNCHANGED <<now, ticks, waiters, calls, rejected>>

\* jamf_service.py:34-74: the answer of the token endpoint ends the locked section
TokenRespond(c, r) ==
    /\ pc[c] = "exchange"
    /\ lock = c
    /\ LET x == get_token_exit(r)
       IN  /\ token' = x.token
           /\ token_expiry' = x.token_expiry
           /\ nextToken' = IF x.issued THEN nextToken + 1 ELSE nextToken
           /\ lock' = 0
           /\ burst' = [burst EXCEPT !.inside = @ \ {c},
                                     !.all_ok = @ /\ (c \in burst.members => r.kind = "ok")]
           /\ IF x.exit.outcome = "return"
              THEN \* _make_request sends the request with the new token
                   /\ pc' = [pc EXCEPT ![c] = "request"]
                   /\ bearer' = [bearer EXCEPT ![c] = x.exit.value[1]]
                   /\ requests' = [requests EXCEPT ![c] = 1]
                   /\ hist' = [hist EXCEPT ![c] =
                        [@ EXCEPT !.returned = TRUE,
                                  !.left = Some(x.token_expiry[1] - now)]]
                   /\ last' = NoLast
                   /\ UNCHANGED op
              ELSE \* the exception ends _make_request and the operation
                   /\ pc' = [pc EXCEPT ![c] = "idle"]
                   /\ op' = [op EXCEPT ![c] = "none"]
                   /\ last' = [caller |-> c, op |-> op[c], kind |-> "none",
                               status_code |-> 0, requests |-> requests[c],
                               result |-> x.exit]
                   /\ hist' = [hist EXCEPT ![c] = NoHist]
                   /\ UNCHANGED <<bearer, requests>>
    /\ UNCHANGED <<now, ticks, waiters, calls, rejected>>

\* a 401 that leaves the cached token in place
after_401_keeps_token(t, e) == [token |-> t, token_expiry |-> e]

\* jamf_service.py:94-95: a 401 drops the cached token and its expiry
after_401(t, e) == [token |-> None, token_expiry |-> None]

\* the API answers the request of c: _make_request raises or returns the
\* answer, and the operation turns the answer into its result
ApiRespond(c, r) ==
    /\ pc[c] = "request"
    /\ LET unauthorized == r.kind = "status" /\ r.status_code = 401
           mr == make_request(r)
       IN  /\ token' = IF unauthorized THEN after_401(token, token_expiry).token ELSE token
           /\ token_expiry' = IF unauthorized
                              THEN after_401(token, token_expiry).token_expiry
                              ELSE token_expiry
           /\ rejected' = IF unauthorized THEN rejected \cup {bearer[c]} ELSE rejected
           /\ last' = [caller |-> c, op |-> op[c], kind |-> r.kind,
                       status_code |-> r.status_code, requests |-> requests[c],
                       result |-> IF mr.outcome = "raise" THEN mr
                                  ELSE operation_result(op[c], r)]
           /\ hist' = [d \in Callers |->
                        IF d = c THEN NoHist
                        ELSE IF unauthorized /\ d \in InGetToken
                        THEN [hist[d] EXCEPT !.clean = FALSE] ELSE hist[d]]
           /\ burst' = IF unauthorized /\ burst.inside # {}
                       THEN [burst EXCEPT !.clean = FALSE] ELSE burst
    /\ pc' = [pc EXCEPT ![c] = "idle"]
    /\ op' = [op EXCEPT ![c] = "none"]
    /\ bearer' = [bearer EXCEPT ![c] = None]
    /\ requests' = [requests EXCEPT ![c] = 0]
    /\ UNCHANGED <<now, ticks, lock, waiters, nextToken, calls>>

\* time passes
Tick(seconds) ==
    /\ ticks' = ticks + 1
    /\ now' = now + seconds
    /\ hist' = [d \in Callers |->
                 IF d \in InGetToken THEN [hist[d] EXCEPT !.clean = FALSE] ELSE hist[d]]
    /\ burst' = IF burst.inside # {} THEN [burst EXCEPT !.clean = FALSE] ELSE burst
    /\ last' = NoLast
    /\ UNCHANGED <<token, token_expiry, lock, waiters, pc, op, bearer,
                   nextToken, requests, calls, rejected>>

\* Concurrent callers of the client: every caller runs the inventory listing,
\* the token endpoint answers in every way, the API accepts or rejects the token
InventoryAnswers ==
    {r \in ApiResponses("get_all_computers") :
        r.kind = "status" /\ r.status_code \in {200, HTTP_401_UNAUTHORIZED}
                          /\ r.body # Some([results |-> None])}

StartOperation(c, o) ==
    /\ calls < MaxCalls
    /\ calls' = calls + 1
    /\ Call(c, o)
    /\ UNCHANGED <<evalVars, repoVars, bulkVars, sigVars, setVars>>
LockGranted(c) == Wake(c) /\ UNCHANGED <<evalVars, repoVars, bulkVars, sigVars, setVars>>
TokenAnswer(c) == \E r \in TokenResponses : TokenRespond(c, r) /\ UNCHANGED <<evalVars, repoVars, bulkVars, sigVars, setVars>>
InventoryAnswer(c) == \E r \in InventoryAnswers : ApiRespond(c, r) /\ UNCHANGED <<evalVars, repoVars, bulkVars, sigVars, setVars>>
ApiAnswer(c) ==
    /\ pc[c] = "request"
    /\ \E r \in ApiResponses(op[c]) : ApiRespond(c, r)
    /\ UNCHANGED <<evalVars, repoVars, bulkVars, sigVars, setVars>>
ClockTick == ticks < MaxTicks /\ Tick(TickSeconds) /\ UNCHANGED <<evalVars, repoVars, bulkVars, sigVars, setVars>>

Next ==
    \/ \E c \in Callers : StartOperation(c, "get_all_computers")
    \/ \E c \in Callers : LockGranted(c)
    \/ \E c \in Callers : TokenAnswer(c)
    \/ \E c \in Callers : InventoryAnswer(c)
    \/ ClockTick

Spec == Init /\ [][Next]_vars

\* The callers of _get_token while the clock stands still: the lock of
\* jamf_service.py:34 is taken and released whatever the time is.
NextLock ==
    \/ \E c \in Callers : StartOperation(c, "get_all_computers")
    \/ \E c \in Callers : LockGranted(c)
    \/ \E c \in Callers : TokenAnswer(c)
    \/ \E c \in Callers : InventoryAnswer(c)

\* Every exchange ends (the post of jamf_service.py:43-51 runs under the
\* default timeout of the HTTP client), and the event loop runs the waiter
\* that a release of the lock has woken.
FairSpec ==
    /\ Init /\ [][NextLock]_vars
    /\ \A c \in Callers : WF_vars(TokenAnswer(c)) /\ WF_vars(LockGranted(c))

\* One caller at a time runs each of the five read operations against every
\* answer of the API
NextClient ==
    \/ \E o \in Operations : StartOperation(1, o)
    \/ TokenAnswer(1)
    \/ ApiAnswer(1)
    \/ ClockTick

SpecClient == Init /\ [][NextClient]_vars

\* ----------------------------------------- check_device_health, step by step
\* An evaluation runs from one await to the next: the cache read, the four
\* fetches through the client, the three configuration reads, the cache write.
FetchStages == {"detail", "policies", "commands", "groups"}
StageOperation(stage) ==
    CASE stage = "detail" -> "get_computer_detail"
      [] stage = "policies" -> "get_failed_policies"
      [] stage = "commands" -> "get_mdm_commands"
      [] stage = "groups" -> "get_computer_group_membership"

\* the evaluation of c ends, by a return or by an exception
EndEvaluation(c, res, from_cache, fetch_failed, wrote) ==
    /\ evlast' = [caller |-> c, computer_id |-> ev[c].computer_id,
                  use_cache |-> ev[c].use_cache, from_cache |-> from_cache,
                  upstream |-> ev[c].upstream, fetch_failed |-> fetch_failed,
                  cache_before |-> ev[c].cache_before, wrote |-> wrote, result |-> res]
    /\ ev' = [ev EXCEPT ![c] = NoEval]

\* health_service.py:134-143: the call, up to the cache read or the first fetch
check_device_health(c, computer_id, use_cache) ==
    /\ ev[c].stage = "idle"
    /\ pc[c] = "idle"
    /\ evaluations' = evaluations + 1
    /\ ev' = [ev EXCEPT ![c] =
                [NoEval EXCEPT !.stage = IF use_cache THEN "cache_lookup" ELSE "detail",
                               !.computer_id = computer_id,
                               !.use_cache = use_cache,
                               !.cache_before = cache[computer_id],
                               !.settings_before = setcalls]]
    /\ evlast' = NoEvLast
    /\ UNCHANGED <<now, ticks, clientVars, config, cache, written>>

\* health_service.py:143-145: the cache read answers; a live row is returned
CacheLookup(c) ==
    /\ ev[c].stage = "cache_lookup"
    /\ LET cached == get_cached_device(cache, ev[c].computer_id, now)
       IN  IF cached # None
           THEN EndEvaluation(c, Return(device_health_from_cache(cached[1])),
                              TRUE, FALSE, FALSE)
           ELSE /\ ev' = [ev EXCEPT ![c].stage = "detail"]
                /\ evlast' = NoEvLast
    /\ UNCHANGED <<now, ticks, clientVars, config, cache, written, evaluations>>

\* the next of the four fetches is called
EvalCall(c) ==
    /\ ev[c].stage \in FetchStages
    /\ pc[c] = "idle"
    /\ Call(c, StageOperation(ev[c].stage))
    /\ UNCHANGED calls
    /\ ev' = [ev EXCEPT ![c].upstream = @ + 1]
    /\ evlast' = NoEvLast
    /\ UNCHANGED <<config, cache, written, evaluations>>

\* the token endpoint answers during a fetch: a failure ends the evaluation
EvalTokenRespond(c, r) ==
    /\ ev[c].stage \in FetchStages
    /\ TokenRespond(c, r)
    /\ IF pc'[c] = "idle"
       THEN EndEvaluation(c, last'.result, FALSE, TRUE, FALSE)
       ELSE UNCHANGED <<ev, evlast>>
    /\ UNCHANGED <<config, cache, written, evaluations>>

\* health_service.py:147-182: a fetch ends; an exception ends the evaluation,
\* a result is taken into the signals
PendingCheck_rereads(e, res, n) ==
    IF e.stage = "commands" /\ res.outcome = "return"
    THEN check_pending_commands(res.value[1].pending,
                                config.thresholds.pending_command_hours, n)
    ELSE Return(FALSE)
\* health_service.py:161, 174-177: the pending commands are judged with the
\* thresholds read before the fetches
PendingCheck(e, res, n) ==
    IF e.stage = "commands" /\ res.outcome = "return"
    THEN check_pending_commands(res.value[1].pending,
                                e.thresholds[1].pending_command_hours, n)
    ELSE Return(FALSE)

AfterFetch(e, res, n) ==
    CASE e.stage = "detail" ->
            [e EXCEPT !.stage = "thresholds",
                      !.device_info = Some(device_basic_info(e.computer_id, res.value[1]))]
      [] e.stage = "policies" ->
            [e EXCEPT !.stage = "commands",
                      !.signals.has_failed_policies = Len(res.value[1]) > 0]
      [] e.stage = "commands" ->
            [e EXCEPT !.stage = "groups",
                      !.signals.has_failed_mdm_commands = Len(res.value[1].failed) > 0,
                      !.signals.has_pending_mdm_commands =
                          PendingCheck(e, res, n).value[1]]
      [] e.stage = "groups" ->
            [e EXCEPT !.stage = "compliance_group",
                      !.group_memberships = res.value[1]]

\* the result of a fetch is taken: an exception of the fetch or of the
\* comparison of the pending commands leaves check_device_health
TakeFetch(c, res, failed) ==
    LET pending == PendingCheck(ev[c], res, now)
    IN  IF res.outcome = "raise"
        THEN EndEvaluation(c, res, FALSE, TRUE, FALSE)
        ELSE IF pending.outcome = "raise"
        THEN EndEvaluation(c, pending, FALSE, ev[c].fetch_failed \/ failed, FALSE)
        ELSE /\ ev' = [ev EXCEPT ![c] =
                         [AfterFetch(ev[c], res, now) EXCEPT
                             !.fetch_failed = @ \/ failed]]
             /\ evlast' = NoEvLast

EvalApiRespond(c, r) ==
    /\ ev[c].stage \in FetchStages
    /\ ApiRespond(c, r)
    /\ TakeFetch(c, last'.result, ~(r.kind = "status" /\ r.status_code = 200))
    /\ UNCHANGED <<config, cache, written, evaluations>>
\* health_service.py:161-170: the thresholds are read, check-in and recon judged
ReadThresholds(c) ==
    /\ ev[c].stage = "thresholds"
    /\ LET thresholds == config.thresholds
           device_info == ev[c].device_info[1]
           check_in_ok == check_recent_contact(device_info.last_contact_time,
                                               thresholds.check_in_hours, now)
           recon_ok == check_recent_recon(device_info.last_inventory_update,
                                          thresholds.recon_hours, now)
       IN  IF check_in_ok.outcome = "raise"
           THEN EndEvaluation(c, check_in_ok, FALSE, ev[c].fetch_failed, FALSE)
           ELSE IF recon_ok.outcome = "raise"
           THEN EndEvaluation(c, recon_ok, FALSE, ev[c].fetch_failed, FALSE)
           ELSE /\ ev' = [ev EXCEPT ![c] =
                            [@ EXCEPT !.stage = "policies",
                                      !.thresholds = Some(thresholds),
                                      !.signals.check_in_ok = check_in_ok.value[1],
                                      !.signals.recon_ok = recon_ok.value[1]]]
                /\ evlast' = NoEvLast
    /\ UNCHANGED <<now, ticks, clientVars, config, cache, written, evaluations>>

\* health_service.py:183-184
ReadComplianceGroup(c) ==
    /\ ev[c].stage = "compliance_group"
    /\ ev' = [ev EXCEPT ![c] =
                [@ EXCEPT !.stage = "monitored_groups",
                          !.compliance_group = Some(config.compliance_group),
                          !.signals.is_compliant =
                              InList(config.compliance_group, ev[c].group_memberships)]]
    /\ evlast' = NoEvLast
    /\ UNCHANGED <<now, ticks, clientVars, config, cache, written, evaluations>>

\* health_service.py:186-209: the record of the evaluation
device_health_record(e, monitored_groups, n) ==
    LET health_result ==
            [check_in_ok |-> e.signals.check_in_ok,
             recon_ok |-> e.signals.recon_ok,
             has_failed_policies |-> e.signals.has_failed_policies,
             has_failed_mdm_commands |-> e.signals.has_failed_mdm_commands,
             has_pending_mdm_commands |-> e.signals.has_pending_mdm_commands,
             is_compliant |-> e.signals.is_compliant,
             smart_group_memberships |->
                 monitored_group_matches(e.group_memberships, monitored_groups,
                                         e.compliance_group[1])]
    IN  [device |-> e.device_info[1],
         health |-> health_result,
         status |-> calculate_status(health_result),
         last_checked |-> n]

\* health_service.py:186-215 and repositories.py:160-165: the monitored groups
\* are read, the record is built and cache_device_health is entered
ReadMonitoredGroups(c) ==
    /\ ev[c].stage = "monitored_groups"
    /\ ev' = [ev EXCEPT ![c] =
                [@ EXCEPT !.stage = "cache_select",
                          !.device_health =
                              Some(device_health_record(ev[c], config.monitored_groups, now)),
                          !.expires_at = Some(now + cache_ttl_seconds)]]
    /\ evlast' = NoEvLast
    /\ UNCHANGED <<now, ticks, clientVars, config, cache, written, evaluations>>

\* repositories.py:166-204: the row of the device is looked up; an existing row
\* is updated and stamped now, a new row is added to the session
CacheSelect(c) ==
    /\ ev[c].stage = "cache_select"
    /\ ev' = [ev EXCEPT ![c] =
                [@ EXCEPT !.stage = "cache_flush",
                          !.pending =
                              IF cache[ev[c].computer_id] # None
                              THEN Some([insert |-> FALSE, cached_at |-> now])
                              ELSE Some([insert |-> TRUE, cached_at |-> now])]]
    /\ evlast' = NoEvLast
    /\ UNCHANGED <<now, ticks, clientVars, config, cache, written, evaluations>>

\* repositories.py:206-207 and health_service.py:217: the flush writes the row
\* (cached_at of a new row is the server default, the time of the insert) and
\* the record is returned
CacheFlush(c) ==
    /\ ev[c].stage = "cache_flush"
    /\ LET e == ev[c]
           cached_at == IF e.pending[1].insert THEN now ELSE e.pending[1].cached_at
       IN  /\ cache' = [cache EXCEPT ![e.computer_id] =
                          Some(cached_row(e.device_health[1], cached_at, e.expires_at[1]))]
           /\ written' = [written EXCEPT ![e.computer_id] = e.device_health]
           /\ EndEvaluation(c, Return(e.device_health[1]), FALSE, e.fetch_failed, TRUE)
    /\ UNCHANGED <<now, ticks, clientVars, config, evaluations>>

\* One caller evaluates a device again and again; the token endpoint
\* issues a long-lived token or refuses, the API answers in every way
EvalTokenResponses ==
    {[kind |-> "non_200", expires_in |-> 0], [kind |-> "ok", expires_in |-> 1800]}

\* the devices the health endpoint is asked about
EvaluatedIds == {1}
Evaluate(c) ==
    /\ evaluations < MaxEvaluations
    /\ \E computer_id \in EvaluatedIds, use_cache \in BOOLEAN :
          check_device_health(c, computer_id, use_cache)
\* every kind of failure, and two bodies for each fetch
EvalBodies ==
    {[general |-> None],
     [general |-> Some(General(Some("mac1"), Some(DateString("iso_z", -3600)),
                               Some(DateString("iso_z", -3600))))],
     [policies |-> Some(<<[failed |-> Some(FALSE)]>>)],
     [policies |-> Some(<<[failed |-> None], [failed |-> Some(TRUE)]>>)],
     [results |-> None],
     [results |-> Some(<<[status |-> Some("Pending"),
                          dateIssued |-> Some(DateString("iso_z", -30000))],
                         [status |-> Some("Acknowledged"), dateIssued |-> None]>>)],
     [memberships |-> Some(<<[name |-> Some("Compliance")]>>)],
     [memberships |-> Some(<<[name |-> Some("Watch")], [name |-> None]>>)]}
EvalAnswers(o) ==
    {r \in ApiResponses(o) : r.body = None \/ r.body[1] \in EvalBodies}

EvalTokenAnswer(c) == \E r \in EvalTokenResponses : EvalTokenRespond(c, r)
EvalApiAnswer(c) ==
    /\ pc[c] = "request"
    /\ \E r \in EvalAnswers(op[c]) : EvalApiRespond(c, r)
EvalClockTick ==
    /\ ticks < MaxEvalTicks
    /\ \E seconds \in {TickSeconds, cache_ttl_seconds} : Tick(seconds)
    /\ evlast' = NoEvLast
    /\ UNCHANGED <<config, cache, ev, written, evaluations>>

NextEvaluate ==
    \/ Evaluate(1) /\ UNCHANGED <<repoVars, bulkVars, sigVars, setVars>>
    \/ CacheLookup(1) /\ UNCHANGED <<repoVars, bulkVars, sigVars, setVars>>
    \/ EvalCall(1) /\ UNCHANGED <<repoVars, bulkVars, sigVars, setVars>>
    \/ EvalTokenAnswer(1) /\ UNCHANGED <<repoVars, bulkVars, sigVars, setVars>>
    \/ EvalApiAnswer(1) /\ UNCHANGED <<repoVars, bulkVars, sigVars, setVars>>
    \/ ReadThresholds(1) /\ UNCHANGED <<repoVars, bulkVars, sigVars, setVars>>
    \/ ReadComplianceGroup(1) /\ UNCHANGED <<repoVars, bulkVars, sigVars, setVars>>
    \/ ReadMonitoredGroups(1) /\ UNCHANGED <<repoVars, bulkVars, sigVars, setVars>>
    \/ CacheSelect(1) /\ UNCHANGED <<repoVars, bulkVars, sigVars, setVars>>
    \/ CacheFlush(1) /\ UNCHANGED <<repoVars, bulkVars, sigVars, setVars>>
    \/ EvalClockTick /\ UNCHANGED <<repoVars, bulkVars, sigVars, setVars>>

SpecEvaluate == Init /\ [][NextEvaluate]_vars

\* ------------------------------------- the signals of check_device_health
\* A service without a database session (cache_repo is None,
\* health_service.py:42-48) evaluates device 1: there is no cache read and no
\* cache write. The four fetches are answered with a status and a body, the
\* clock advances between the awaits.
Command(status, dateIssued) == [status |-> Some(status), dateIssued |-> dateIssued]
SignalDates ==
    {None, Some(DateString("text", 0)), Some(DateString("iso_naive", -3600)),
     Some(DateString("iso_z", -Hours(check_in_threshold_hours))),
     Some(DateString("iso_z", 1 - Hours(check_in_threshold_hours))),
     Some(DateString("iso_z", -3600))}
SignalDetails ==
    {[general |-> None]}
    \cup {[general |-> Some(General(Some("mac1"), contact, inventory))] :
             contact \in SignalDates,
             inventory \in {None, Some(DateString("iso_naive", -3600)),
                            Some(DateString("iso_z", -Hours(recon_threshold_hours))),
                            Some(DateString("iso_z", -3600))}}
CommandDates ==
    [old |-> Some(DateString("iso_z", -Hours(pending_command_threshold_hours) - 1)),
     edge |-> Some(DateString("iso_z", -Hours(pending_command_threshold_hours))),
     young |-> Some(DateString("iso_z", -3600)),
     naive |-> Some(DateString("iso_naive", -Hours(pending_command_threshold_hours) - 1)),
     text |-> Some(DateString("text", 0))]
SignalCommands ==
    {<<>>,
     <<Command("Pending", CommandDates.old)>>,
     <<Command("Pending", CommandDates.edge)>>,
     <<Command("Pending", CommandDates.young)>>,
     <<Command("InProgress", CommandDates.old)>>,
     <<Command("Pending", CommandDates.naive)>>,
     <<Command("Pending", None)>>,
     <<Command("Pending", CommandDates.text)>>,
     <<Command("Acknowledged", CommandDates.old), Command("Failed", CommandDates.old)>>,
     <<Command("Pending", CommandDates.young), Command("Pending", CommandDates.old)>>,
     <<Command("Pending", CommandDates.old), Command("Pending", CommandDates.naive)>>}
SignalBodies(stage) ==
    CASE stage = "detail" -> SignalDetails
      [] stage = "policies" ->
            {[policies |-> Some(<<[failed |-> Some(FALSE)]>>)],
             [policies |-> Some(<<[failed |-> Some(TRUE)]>>)]}
      [] stage = "commands" ->
            {[results |-> None]} \cup {[results |-> Some(l)] : l \in SignalCommands}
      [] stage = "groups" ->
            {[memberships |-> Some(<<[name |-> Some("Compliance")]>>)],
             [memberships |-> Some(<<[name |-> Some("Watch")]>>)]}
SignalAnswers(stage) ==
    {[kind |-> "status", status_code |-> 500, body |-> None]}
    \cup {[kind |-> "status", status_code |-> 200, body |-> Some(b)] :
             b \in SignalBodies(stage)}

\* the values datetime.now() gives the comparisons a step makes
\* (health_service.py:300, 314, 328): none for an absent timestamp or an
\* empty list, none after a comparison that raised
ThresholdReads(device_info, n) ==
    LET contact == device_info.last_contact_time
        inventory == device_info.last_inventory_update
    IN  (IF contact # None THEN <<n>> ELSE <<>>)
        \o (IF (contact = None \/ contact[1].tzinfo) /\ inventory # None
            THEN <<n>> ELSE <<>>)
PendingReads(e, res, n) ==
    IF e.stage = "commands" /\ res.outcome = "return" /\ res.value[1].pending # <<>>
    THEN <<n>> ELSE <<>>

\* health_service.py:134-159: the call and the answer of the detail fetch
SignalsStart(c) ==
    /\ ev[c].stage = "idle"
    /\ evaluations < MaxEvaluations
    /\ evaluations' = evaluations + 1
    /\ \E r \in SignalAnswers("detail") :
          LET e == [NoEval EXCEPT !.stage = "detail", !.computer_id = 1]
              res == operation_result(StageOperation("detail"), r)
          IN  IF res.outcome = "raise"
              THEN /\ evlast' = [NoEvLast EXCEPT !.caller = c, !.computer_id = 1,
                                                 !.fetch_failed = TRUE, !.result = res]
                   /\ ev' = ev
              ELSE /\ ev' = [ev EXCEPT ![c] = AfterFetch(e, res, now)]
                   /\ evlast' = NoEvLast
    /\ clock_reads' = <<>>
    /\ mdm_results' = <<>>
    /\ UNCHANGED <<now, ticks, clientVars, config, cache, written>>

\* health_service.py:161-170
SignalsThresholds(c) ==
    /\ ReadThresholds(c)
    /\ clock_reads' = clock_reads \o ThresholdReads(ev[c].device_info[1], now)
    /\ UNCHANGED mdm_results

\* health_service.py:172-182: the answers of the other three fetches
SignalsFetched(c) ==
    /\ ev[c].stage \in FetchStages \ {"detail"}
    /\ \E r \in SignalAnswers(ev[c].stage) :
          LET res == operation_result(StageOperation(ev[c].stage), r)
          IN  /\ TakeFetch(c, res, r.status_code # 200)
              /\ clock_reads' = clock_reads \o PendingReads(ev[c], res, now)
              /\ mdm_results' = IF ev[c].stage # "commands" THEN mdm_results
                                ELSE IF r.body = None THEN <<>>
                                ELSE GetOr(r.body[1].results, <<>>)
    /\ UNCHANGED <<now, ticks, clientVars, config, cache, written, evaluations>>

\* health_service.py:211-217: without a cache repository the record is returned
ReturnRecord(c) ==
    /\ ev[c].stage = "cache_select"
    /\ EndEvaluation(c, Return(ev[c].device_health[1]), FALSE, ev[c].fetch_failed, FALSE)
    /\ UNCHANGED <<now, ticks, clientVars, config, cache, written, evaluations>>

SignalsClockTick ==
    /\ ticks < MaxEvalTicks
    /\ Tick(TickSeconds)
    /\ evlast' = NoEvLast
    /\ UNCHANGED <<config, cache, ev, written, evaluations>>

NextSignals ==
    \/ SignalsStart(1) /\ UNCHANGED <<repoVars, bulkVars, setVars>>
    \/ SignalsThresholds(1) /\ UNCHANGED <<repoVars, bulkVars, setVars>>
    \/ SignalsFetched(1) /\ UNCHANGED <<repoVars, bulkVars, setVars>>
    \/ ReadComplianceGroup(1) /\ UNCHANGED <<repoVars, bulkVars, sigVars, setVars>>
    \/ ReadMonitoredGroups(1) /\ UNCHANGED <<repoVars, bulkVars, sigVars, setVars>>
    \/ ReturnRecord(1) /\ UNCHANGED <<repoVars, bulkVars, sigVars, setVars>>
    \/ SignalsClockTick /\ UNCHANGED <<repoVars, bulkVars, sigVars, setVars>>

SpecSignals == Init /\ [][NextSignals]_vars

\* --------------------------------------------------- the settings routes
\* The requests of the settings routes, one after the other. Each request is
\* served by a service with a database session (settings.py:13-20); the same
\* calls are made on a service without one, which lives across the requests.
Thresholds(check_in_hours, recon_hours, pending_command_hours) ==
    [check_in_hours |-> check_in_hours, recon_hours |-> recon_hours,
     pending_command_hours |-> pending_command_hours]
ThresholdBodies ==
    {Thresholds(24, 24, 6), Thresholds(1, 1, 1), Thresholds(168, 168, 72),
     Thresholds(0, 24, 6), Thresholds(169, 24, 6), Thresholds(24, 0, 6),
     Thresholds(24, 24, 73)}
MonitoredGroupsBodies ==
    {[compliance_group |-> name, monitored_groups |-> groups] :
        name \in {None, Some(""), Some("Staff")},
        groups \in {None, Some(<<>>), Some(<<"Watch">>), Some(<<"Watch", "Lab">>)}}

\* a request runs its handler and its session ends
SettingsRequest(route, body, out_durable, out_volatile) ==
    /\ setcalls < MaxSettingsRequests
    /\ setcalls' = setcalls + 1
    /\ durable' = request_end(durable, out_durable)
    /\ volatile' = request_end(volatile, out_volatile)
    /\ setlast' = [route |-> route, body |-> body, before |-> Some(durable),
                   result |-> out_durable.result,
                   volatile_result |-> out_volatile.result]
    /\ UNCHANGED <<now, ticks, clientVars, evalVars, repoVars, bulkVars, sigVars,
                   thr, returned>>

\* settings.py:23-31
GetThresholds ==
    SettingsRequest("get_thresholds", None,
                    [result |-> get_thresholds(durable), state |-> durable],
                    [result |-> get_thresholds(volatile), state |-> volatile])

\* settings.py:34-49
UpdateThresholds ==
    \E body \in ThresholdBodies :
        SettingsRequest("update_thresholds", Some(body),
                        update_thresholds(durable, body),
                        update_thresholds(volatile, body))

\* settings.py:52-66
GetMonitoredGroups ==
    SettingsRequest("get_monitored_groups", None,
                    [result |-> Return(monitored_groups_response(durable)),
                     state |-> durable],
                    [result |-> Return(monitored_groups_response(volatile)),
                     state |-> volatile])

\* settings.py:69-91
UpdateMonitoredGroups ==
    \E groups \in MonitoredGroupsBodies :
        SettingsRequest("update_monitored_groups", Some(groups),
                        update_monitored_groups(durable, groups),
                        update_monitored_groups(volatile, groups))

NextSettings ==
    \/ GetThresholds
    \/ UpdateThresholds
    \/ GetMonitoredGroups
    \/ UpdateMonitoredGroups

SpecSettings == Init /\ [][NextSettings]_vars

\* ------------------------------------------- DeviceCacheRepository, by session
\* Every request has a session of its own (database.py:43); the repository
\* calls of a request run one after the other, those of different requests
\* interleave at the awaits.  A session reads its own uncommitted writes and
\* the committed rows; a row with an uncommitted write of another session is
\* locked against writes until that session commits or rolls back.
session_view(s) ==
    [d \in DeviceIds |->
        IF sess[s].writes[d] = None THEN table[d] ELSE sess[s].writes[d][1]]
locked_by_other(s, d) == \E s2 \in Sessions \ {s} : sess[s2].writes[d] # None

\* the records the repository is handed: a healthy and a non-compliant device
sample_device_health(device_id, is_compliant, n) ==
    LET health == [check_in_ok |-> TRUE, recon_ok |-> TRUE,
                   has_failed_policies |-> FALSE, has_failed_mdm_commands |-> FALSE,
                   has_pending_mdm_commands |-> FALSE, is_compliant |-> is_compliant,
                   smart_group_memberships |-> <<>>]
    IN  [device |-> [id |-> device_id, name |-> "mac1", serial_number |-> "SN1",
                     model |-> "Unknown", os_version |-> "14.1",
                     last_contact_time |-> None, last_inventory_update |-> None],
         health |-> health,
         status |-> calculate_status(health),
         last_checked |-> n]
PutRecords(n) ==
    {sample_device_health(d, b, n) : d \in DeviceIds, b \in BOOLEAN}
PutTtls == {TickSeconds, cache_ttl_seconds}

\* repositories.py:168-184 and 206: the UPDATE the flush sends sets the columns
\* whose assigned value differs from the value loaded by the select; the
\* other columns keep what the row holds when the UPDATE runs
flushed_update(current, loaded, intended) ==
    [f \in DOMAIN intended |->
        IF intended[f] # loaded[f] THEN intended[f] ELSE current[f]]

\* the row the put that session s sees last for the device meant to write:
\* its own uncommitted put, else the put committed last
visible_entry(s, d) ==
    IF sess[s].writes[d] # None THEN sess[s].intended[d] ELSE latest[d]

\* repositories.py:130-139
GetCachedDevice(s, device_id) ==
    /\ sess[s].stage = "idle"
    /\ slast' = [session |-> s, op |-> "get", device_id |-> device_id,
                 result |-> Return(get_cached_device(session_view(s), device_id, now)),
                 entry |-> visible_entry(s, device_id)]
    /\ UNCHANGED <<table, sess, cacheops, latest, complete>>

\* repositories.py:160-204: expires_at, the select, and the row updated in
\* memory or added to the session
CacheDeviceHealthSelect(s, device_health, ttl_seconds) ==
    /\ sess[s].stage = "idle"
    /\ cacheops' = cacheops + 1
    /\ LET expires_at == now + ttl_seconds
           cached == session_view(s)[device_health.device.id]
       IN  sess' = [sess EXCEPT ![s].stage = "put_flush",
                                ![s].put = Some([device_health |-> device_health,
                                                 expires_at |-> expires_at,
                                                 cached |-> cached,
                                                 cached_at |-> now])]
    /\ slast' = NoSLast
    /\ UNCHANGED <<table, latest, complete>>

\* database.py:47-49: an exception leaves the request, the session rolls back
rolled_back(s) == NoSession

\* repositories.py:206-207: the flush sends the INSERT or the UPDATE
CacheDeviceHealthFlush(s) ==
    /\ sess[s].stage = "put_flush"
    /\ LET p == sess[s].put[1]
           d == p.device_health.device.id
           current == session_view(s)[d]
           intended == cached_row(p.device_health,
                                  IF p.cached = None THEN now ELSE p.cached_at,
                                  p.expires_at)
           row == IF p.cached = None THEN intended
                  ELSE flushed_update(current[1], p.cached[1], intended)
       IN  /\ ~locked_by_other(s, d)
           /\ IF p.cached = None /\ current # None
              THEN /\ sess' = [sess EXCEPT ![s] = rolled_back(s)]
                   /\ slast' = [session |-> s, op |-> "put", device_id |-> d,
                                result |-> Raise("IntegrityError", 0, "device_id"),
                                entry |-> None]
                   /\ UNCHANGED complete
              ELSE IF p.cached # None /\ current = None
              THEN /\ sess' = [sess EXCEPT ![s] = rolled_back(s)]
                   /\ slast' = [session |-> s, op |-> "put", device_id |-> d,
                                result |-> Raise("StaleDataError", 0, "device_id"),
                                entry |-> None]
                   /\ UNCHANGED complete
              ELSE /\ sess' = [sess EXCEPT ![s].stage = "idle",
                                           ![s].put = None,
                                           ![s].writes[d] = Some(Some(row)),
                                           ![s].intended[d] = Some(intended)]
                   /\ slast' = [session |-> s, op |-> "put", device_id |-> d,
                                result |-> Return(row), entry |-> Some(intended)]
                   /\ complete' = [complete EXCEPT ![d] = @ \cup {intended}]
    /\ UNCHANGED <<table, cacheops, latest>>

\* a select that leaves out the rows that expire at this very time
expired_entries_before(view, n) ==
    {d \in DeviceIds : view[d] # None /\ view[d][1].expires_at < n}

\* repositories.py:213-217: the rows the select of clear_expired_cache finds
expired_entries(view, n) ==
    {d \in DeviceIds : view[d] # None /\ view[d][1].expires_at <= n}

\* repositories.py:213-220: the expired rows are selected and marked deleted
ClearExpiredSelect(s) ==
    /\ sess[s].stage = "idle"
    /\ cacheops' = cacheops + 1
    /\ sess' = [sess EXCEPT ![s].stage = "sweep_flush",
                            ![s].expired = expired_entries(session_view(s), now),
                            ![s].swept_at = now]
    /\ slast' = NoSLast
    /\ UNCHANGED <<table, latest, complete>>

\* repositories.py:222-223: the flush sends the DELETEs, by primary key
ClearExpiredFlush(s) ==
    /\ sess[s].stage = "sweep_flush"
    /\ \A d \in sess[s].expired : ~locked_by_other(s, d)
    /\ LET expired == sess[s].expired
       IN  /\ sess' = [sess EXCEPT
                         ![s].stage = "idle",
                         ![s].expired = {},
                         ![s].swept_at = 0,
                         ![s].writes = [d \in DeviceIds |->
                                          IF d \in expired THEN Some(None) ELSE @[d]],
                         ![s].intended = [d \in DeviceIds |->
                                          IF d \in expired THEN None ELSE @[d]]]
           /\ slast' = [session |-> s, op |-> "sweep", device_id |-> 0,
                        result |-> Return(Cardinality(expired)), entry |-> None]
    /\ UNCHANGED <<table, cacheops, latest, complete>>

\* database.py:45-46: the request ends and the session commits
SessionCommit(s) ==
    /\ sess[s].stage = "idle"
    /\ \E d \in DeviceIds : sess[s].writes[d] # None
    /\ table' = session_view(s)
    /\ latest' = [d \in DeviceIds |->
                    IF sess[s].writes[d] = None THEN latest[d] ELSE sess[s].intended[d]]
    /\ sess' = [sess EXCEPT ![s] = NoSession]
    /\ slast' = NoSLast
    /\ UNCHANGED <<cacheops, complete>>

CacheFrame == UNCHANGED <<clientVars, evalVars, bulkVars, sigVars, setVars>>
CacheClockTick ==
    /\ ticks < MaxCacheTicks
    /\ \E seconds \in {TickSeconds, cache_ttl_seconds} :
          /\ now' = now + seconds
          /\ ticks' = ticks + 1
    /\ slast' = NoSLast
    /\ UNCHANGED <<table, sess, cacheops, latest, complete>>
    /\ CacheFrame

\* The requests run one after the other: one session at a time
NextCacheSequence ==
    \/ \E d \in DeviceIds : GetCachedDevice(1, d) /\ UNCHANGED <<now, ticks>> /\ CacheFrame
    \/ /\ cacheops < MaxCacheOps
       /\ \E r \in PutRecords(now), ttl \in PutTtls : CacheDeviceHealthSelect(1, r, ttl)
       /\ UNCHANGED <<now, ticks>> /\ CacheFrame
    \/ CacheDeviceHealthFlush(1) /\ UNCHANGED <<now, ticks>> /\ CacheFrame
    \/ cacheops < MaxCacheOps /\ ClearExpiredSelect(1) /\ UNCHANGED <<now, ticks>> /\ CacheFrame
    \/ ClearExpiredFlush(1) /\ UNCHANGED <<now, ticks>> /\ CacheFrame
    \/ SessionCommit(1) /\ UNCHANGED <<now, ticks>> /\ CacheFrame
    \/ CacheClockTick

SpecCacheSequence == Init /\ [][NextCacheSequence]_vars

\* The requests overlap: the repository calls of the sessions interleave
NextCache ==
    \/ \E s \in Sessions, d \in DeviceIds :
          GetCachedDevice(s, d) /\ UNCHANGED <<now, ticks>> /\ CacheFrame
    \/ /\ cacheops < MaxOverlapOps
       /\ \E s \in Sessions, r \in PutRecords(now) :
             CacheDeviceHealthSelect(s, r, cache_ttl_seconds)
       /\ UNCHANGED <<now, ticks>> /\ CacheFrame
    \/ \E s \in Sessions : CacheDeviceHealthFlush(s) /\ UNCHANGED <<now, ticks>> /\ CacheFrame
    \/ /\ cacheops < MaxOverlapOps
       /\ \E s \in Sessions : ClearExpiredSelect(s)
       /\ UNCHANGED <<now, ticks>> /\ CacheFrame
    \/ \E s \in Sessions : ClearExpiredFlush(s) /\ UNCHANGED <<now, ticks>> /\ CacheFrame
    \/ \E s \in Sessions : SessionCommit(s) /\ UNCHANGED <<now, ticks>> /\ CacheFrame
    \/ CacheClockTick

SpecCache == Init /\ [][NextCache]_vars

\* ------------------------------------------------- the list requests, in steps
\* A list request (devices.py:26-51 or 67-94) runs check_all_devices in the
\* session of the request: cache is what the session reads and has written,
\* table holds the committed rows.
StatusFilters == {None, Some("HEALTHY"), Some("CAUTION"), Some("UNHEALTHY")}

\* a count that takes every device of the list
count_status_all(devices, status) == Len(devices)

\* sum(1 for d in devices if d.status == status)
count_status(devices, status) ==
    LET HasStatus(d) == d.status = status
    IN  Len(SelectSeq(devices, HasStatus))

\* round(count / total * 100, 1), in tenths of a percent
percentage(count, total) ==
    IF total = 0 THEN 0 ELSE (2000 * count + total) \div (2 * total)

\* devices.py:38-51
device_list_response(devices, status_filter) ==
    LET HasStatus(d) == d.status = status_filter[1]
        filtered == IF status_filter # None THEN SelectSeq(devices, HasStatus)
                    ELSE devices
    IN  [total |-> Len(filtered),
         devices |-> filtered,
         healthy_count |-> count_status(filtered, "HEALTHY"),
         caution_count |-> count_status(filtered, "CAUTION"),
         unhealthy_count |-> count_status(filtered, "UNHEALTHY")]

\* devices.py:79-94
status_summary(devices) ==
    LET healthy == count_status(devices, "HEALTHY")
        caution == count_status(devices, "CAUTION")
        unhealthy == count_status(devices, "UNHEALTHY")
        total == Len(devices)
    IN  [total |-> total, healthy |-> healthy, caution |-> caution,
         unhealthy |-> unhealthy,
         percentages |-> [healthy |-> percentage(healthy, total),
                          caution |-> percentage(caution, total),
                          unhealthy |-> percentage(unhealthy, total)]]

\* the list request ends: what it leaves behind
EndRequest(kind, status_filter, res) ==
    /\ blast' = [kind |-> kind, use_cache |-> bulk.use_cache,
                 status_filter |-> status_filter, result |-> res,
                 computers |-> bulk.computers, results |-> bulk.results,
                 errors |-> bulk.errors, evaluated |-> bulk.evaluated,
                 wrote |-> bulk.wrote, hits |-> bulk.hits, view |-> cache]
    /\ bulk' = [NoBulk EXCEPT !.started = bulk.started]

\* health_service.py:223: check_all_devices asks for the inventory
check_all_devices(use_cache) ==
    /\ bulk.stage = "idle"
    /\ ev[1].stage = "idle"
    /\ Call(1, "get_all_computers")
    /\ bulk' = [NoBulk EXCEPT !.stage = "listing", !.started = bulk.started + 1,
                              !.use_cache = use_cache]
    /\ blast' = NoBLast
    /\ UNCHANGED <<calls, evalVars, repoVars, twritten, sigVars, setVars>>

\* a failed listing that is taken for an empty inventory
ListingFailed_goes_on(res) ==
    /\ bulk' = [bulk EXCEPT !.stage = "loop", !.computers = <<>>]
    /\ blast' = NoBLast
    /\ UNCHANGED <<evalVars, repoVars, twritten, sigVars, setVars>>

\* database.py:47-49: an exception leaves the request and nothing was written
ListingFailed(res) ==
    /\ EndRequest("failed", None, res)
    /\ UNCHANGED <<evalVars, repoVars, twritten, sigVars, setVars>>

\* the token endpoint answers while the inventory is asked for
ListingTokenRespond(r) ==
    /\ bulk.stage = "listing"
    /\ TokenRespond(1, r)
    /\ IF pc'[1] = "idle"
       THEN ListingFailed(last'.result)
       ELSE UNCHANGED <<evalVars, repoVars, bulkVars, sigVars, setVars>>

\* health_service.py:223-226: the inventory arrives, or the request fails
ListingApiRespond(r) ==
    /\ bulk.stage = "listing"
    /\ ApiRespond(1, r)
    /\ LET res == last'.result
       IN  IF res.outcome = "raise"
           THEN ListingFailed(res)
           ELSE /\ bulk' = [bulk EXCEPT !.stage = "loop", !.computers = res.value[1]]
                /\ blast' = NoBLast
                /\ UNCHANGED <<evalVars, repoVars, twritten, sigVars, setVars>>

\* a loop that takes every second computer
NextComputer_skips ==
    /\ bulk.stage = "loop"
    /\ bulk.i + 1 < Len(bulk.computers)
    /\ check_device_health(1, bulk.computers[bulk.i + 2].id, bulk.use_cache)
    /\ bulk' = [bulk EXCEPT !.i = @ + 2]
    /\ blast' = NoBLast
    /\ UNCHANGED <<repoVars, twritten, sigVars, setVars>>

\* health_service.py:228-233: the loop calls check_device_health for the next
\* computer when the evaluation of the previous one has ended
NextComputer ==
    /\ bulk.stage = "loop"
    /\ bulk.i < Len(bulk.computers)
    /\ check_device_health(1, bulk.computers[bulk.i + 1].id, bulk.use_cache)
    /\ bulk' = [bulk EXCEPT !.i = @ + 1]
    /\ blast' = NoBLast
    /\ UNCHANGED <<repoVars, twritten, sigVars, setVars>>

\* a loop whose except clause lets the exception of the evaluation pass
collect_reraises(b, e, evaluated_at) ==
    IF e.result.outcome = "return"
    THEN [b EXCEPT !.results = Append(@, e.result.value[1]),
                   !.evaluated = Append(@, evaluated_at)]
    ELSE [b EXCEPT !.stage = "raised"]

\* health_service.py:229-239: the evaluation e of the loop has ended: its
\* record is appended to results, or its exception to errors
collect(b, e, evaluated_at) ==
    IF e.result.outcome = "return"
    THEN [b EXCEPT !.results = Append(@, e.result.value[1]),
                   !.evaluated = Append(@, evaluated_at)]
    ELSE [b EXCEPT !.errors = Append(@, [device_id |-> e.computer_id,
                                         error |-> e.result.detail])]

\* the step of an evaluation of the loop: when the evaluation ends in it, the
\* loop takes its outcome
Collected ==
    /\ bulk' =
         IF evlast'.caller = 0 THEN bulk
         ELSE LET d == evlast'.computer_id
                  evaluated_at == IF evlast'.from_cache
                                  THEN written[d][1].last_checked
                                  ELSE now
              IN  [collect(bulk, evlast', evaluated_at) EXCEPT
                     !.wrote = IF evlast'.wrote THEN @ \cup {d} ELSE @,
                     !.hits = IF evlast'.from_cache THEN @ \cup {d} ELSE @]
    /\ blast' = NoBLast
    /\ UNCHANGED <<repoVars, twritten, sigVars, setVars>>

\* health_service.py:241-244, devices.py:38-51 or 79-94, database.py:45: the
\* loop is over, the route builds its response and the session commits
ListReturn(status_filter) ==
    /\ bulk.stage = "loop"
    /\ bulk.i = Len(bulk.computers)
    /\ ev[1].stage = "idle"
    /\ EndRequest("list", status_filter,
                  Return(device_list_response(bulk.results, status_filter)))
    /\ table' = cache
    /\ twritten' = written
    /\ evlast' = NoEvLast
    /\ UNCHANGED <<now, ticks, clientVars, config, cache, ev, written, evaluations,
                   sess, slast, cacheops, latest, complete, sigVars, setVars>>
SummaryReturn ==
    /\ bulk.stage = "loop"
    /\ bulk.i = Len(bulk.computers)
    /\ ev[1].stage = "idle"
    /\ EndRequest("summary", None, Return(status_summary(bulk.results)))
    /\ table' = cache
    /\ twritten' = written
    /\ evlast' = NoEvLast
    /\ UNCHANGED <<now, ticks, clientVars, config, cache, ev, written, evaluations,
                   sess, slast, cacheops, latest, complete, sigVars, setVars>>

\* database.py:39-51: the request is cancelled while check_all_devices awaits
\* the database: CancelledError passes the except clauses, the session is
\* closed without a commit and its flushed rows are discarded
Abandon ==
    /\ bulk.stage = "loop"
    /\ pc[1] = "idle"
    /\ EndRequest("abandoned", None, Raise("CancelledError", 0, ""))
    /\ cache' = table
    /\ written' = twritten
    /\ ev' = [ev EXCEPT ![1] = NoEval]
    /\ evlast' = NoEvLast
    /\ UNCHANGED <<now, ticks, clientVars, config, evaluations, repoVars, twritten, sigVars, setVars>>

\* the answers of the API during list requests: the inventory, a device that
\* is found or not, policies that failed or not, no command, the groups
BulkBodies ==
    {[results |-> Some(<<[id |-> 1], [id |-> 2]>>)],
     [general |-> Some(General(Some("mac1"), Some(DateString("iso_z", -3600)),
                               Some(DateString("iso_z", -3600))))],
     [policies |-> Some(<<[failed |-> Some(FALSE)]>>)],
     [policies |-> Some(<<[failed |-> None], [failed |-> Some(TRUE)]>>)],
     [results |-> None],
     [memberships |-> Some(<<[name |-> Some("Compliance")]>>)],
     [memberships |-> Some(<<[name |-> Some("Watch")], [name |-> None]>>)]}
BulkAnswers(o) ==
    {r \in ApiResponses(o) :
        \/ r.kind = "status" /\ r.status_code = 200 /\ r.body[1] \in BulkBodies
        \/ /\ o \in {"get_all_computers", "get_computer_detail"}
           /\ r.kind = "status" /\ r.status_code = HTTP_404_NOT_FOUND}
BulkTokenResponses == {[kind |-> "ok", expires_in |-> 1800]}

StartList ==
    /\ bulk.started < MaxBulks
    /\ \E use_cache \in BOOLEAN : check_all_devices(use_cache)
BulkTokenAnswer ==
    \E r \in BulkTokenResponses :
       IF bulk.stage = "listing" THEN ListingTokenRespond(r)
       ELSE EvalTokenRespond(1, r) /\ Collected
BulkApiAnswer ==
    /\ pc[1] = "request"
    /\ \E r \in BulkAnswers(op[1]) :
          IF bulk.stage = "listing" THEN ListingApiRespond(r)
          ELSE EvalApiRespond(1, r) /\ Collected
BulkClockTick ==
    /\ ticks < MaxEvalTicks
    /\ Tick(cache_ttl_seconds)
    /\ evlast' = NoEvLast
    /\ blast' = NoBLast
    /\ UNCHANGED <<config, cache, ev, written, evaluations, repoVars, twritten, bulk, sigVars, setVars>>

NextBulk ==
    \/ StartList
    \/ BulkTokenAnswer
    \/ BulkApiAnswer
    \/ NextComputer
    \/ CacheLookup(1) /\ Collected
    \/ EvalCall(1) /\ Collected
    \/ ReadThresholds(1) /\ Collected
    \/ ReadComplianceGroup(1) /\ Collected
    \/ ReadMonitoredGroups(1) /\ Collected
    \/ CacheSelect(1) /\ Collected
    \/ CacheFlush(1) /\ Collected
    \/ \E status_filter \in StatusFilters : ListReturn(status_filter)
    \/ SummaryReturn
    \/ Abandon
    \/ BulkClockTick

SpecBulk == Init /\ [][NextBulk]_vars

\* ------------------------------------------------- the classification alone
\* health_service.py:192-209: HealthCheckResult is built from six booleans
\* and the matched groups, and DeviceHealth takes its calculate_status()
HealthResults ==
    [check_in_ok : BOOLEAN, recon_ok : BOOLEAN, has_failed_policies : BOOLEAN,
     has_failed_mdm_commands : BOOLEAN, has_pending_mdm_commands : BOOLEAN,
     is_compliant : BOOLEAN,
     smart_group_memberships : {<<>>, <<"Watch">>, <<"Watch", "Lab">>}]

Classify ==
    /\ \E health_result \in HealthResults :
          evlast' = [NoEvLast EXCEPT
                       !.caller = 1,
                       !.computer_id = 1,
                       !.result = Return([sample_device_health(1, TRUE, now) EXCEPT
                                            !.health = health_result,
                                            !.status = calculate_status(health_result)])]
    /\ UNCHANGED <<now, ticks, clientVars, config, cache, ev, written, evaluations,
                   repoVars, bulkVars, sigVars, setVars>>

SpecClassify == Init /\ [][Classify]_vars

\* ------------------------------- evaluations under a changing configuration
\* One caller evaluates device 1 with a service that has a database session
\* (devices.py:23), while requests of the settings routes change the
\* configuration (settings.py:34-49, 69-91). A settings request commits when it
\* ends (database.py:45); the evaluation reads the thresholds, the compliance
\* group and the monitored groups from the database when it reaches
\* health_service.py:161, 183 and 186.
MaxConfigChanges == 1

\* the configuration the getters of a service with a session return
configuration(S) ==
    [thresholds |-> get_thresholds(S).value[1],
     compliance_group |-> get_compliance_group_name(S),
     monitored_groups |-> get_monitored_groups(S)]

ConfiguredThresholdBodies == {Thresholds(1, 1, 1)}
ConfiguredGroupsBodies ==
    {[compliance_group |-> None, monitored_groups |-> Some(<<"Compliance", "Watch">>)],
     [compliance_group |-> None, monitored_groups |-> Some(<<"Watch">>)],
     [compliance_group |-> Some("Staff"), monitored_groups |-> None]}

\* a settings request that also empties the device cache
ConfigurationRequest_invalidates(route, body, out) ==
    /\ setcalls < MaxConfigChanges
    /\ setcalls' = setcalls + 1
    /\ durable' = request_end(durable, out)
    /\ config' = configuration(durable')
    /\ cache' = [d \in DeviceIds |-> None]
    /\ setlast' = [NoSetLast EXCEPT !.route = route, !.body = body,
                                    !.before = Some(durable), !.result = out.result]
    /\ evlast' = NoEvLast
    /\ UNCHANGED <<now, ticks, clientVars, ev, written, evaluations, volatile,
                   thr, returned>>

\* a settings request runs and commits between two steps of the evaluation
ConfigurationRequest(route, body, out) ==
    /\ setcalls < MaxConfigChanges
    /\ setcalls' = setcalls + 1
    /\ durable' = request_end(durable, out)
    /\ config' = configuration(durable')
    /\ setlast' = [NoSetLast EXCEPT !.route = route, !.body = body,
                                    !.before = Some(durable), !.result = out.result]
    /\ evlast' = NoEvLast
    /\ UNCHANGED <<now, ticks, clientVars, cache, ev, written, evaluations, volatile,
                   thr, returned>>

\* settings.py:34-49
ConfiguredUpdateThresholds ==
    \E body \in ConfiguredThresholdBodies :
        ConfigurationRequest("update_thresholds", Some(body),
                             update_thresholds(durable, body))

\* settings.py:69-91
ConfiguredUpdateMonitoredGroups ==
    \E groups \in ConfiguredGroupsBodies :
        ConfigurationRequest("update_monitored_groups", Some(groups),
                             update_monitored_groups(durable, groups))

\* the answers of the four fetches: a device seen now or two hours ago, with
\* no command or one pending for two hours, in one or two groups
ConfiguredBodies(stage) ==
    CASE stage = "detail" ->
            {[general |-> Some(General(Some("mac1"), Some(DateString("iso_z", contact)),
                                       Some(DateString("iso_z", 0))))] :
                contact \in {0, -Hours(2)}}
      [] stage = "policies" -> {[policies |-> Some(<<[failed |-> Some(FALSE)]>>)]}
      [] stage = "commands" ->
            {[results |-> Some(<<>>)],
             [results |-> Some(<<Command("Pending",
                                         Some(DateString("iso_z", -Hours(2))))>>)]}
      [] stage = "groups" ->
            {[memberships |-> Some(<<[name |-> Some("Compliance")]>>)],
             [memberships |-> Some(<<[name |-> Some("Compliance")],
                                     [name |-> Some("Watch")]>>)],
             [memberships |-> Some(<<[name |-> Some("Watch")]>>)]}
ConfiguredAnswers(stage) ==
    {[kind |-> "status", status_code |-> 200, body |-> Some(b)] :
        b \in ConfiguredBodies(stage)}

\* health_service.py:147-182: a fetch is made and answered
ConfiguredFetched(c) ==
    /\ ev[c].stage \in FetchStages
    /\ \E r \in ConfiguredAnswers(ev[c].stage) :
          LET res == operation_result(StageOperation(ev[c].stage), r)
          IN  /\ TakeFetch(c, res, r.status_code # 200)
              /\ mdm_results' = IF ev[c].stage # "commands" THEN mdm_results
                                ELSE GetOr(r.body[1].results, <<>>)
    /\ UNCHANGED <<now, ticks, clientVars, config, cache, written, evaluations,
                   clock_reads>>

\* the time-to-live of a cached row passes
ConfiguredClockTick ==
    /\ ticks < MaxEvalTicks
    /\ Tick(cache_ttl_seconds)
    /\ evlast' = NoEvLast
    /\ UNCHANGED <<config, cache, ev, written, evaluations>>

NextConfigured ==
    \/ Evaluate(1) /\ UNCHANGED <<repoVars, bulkVars, sigVars, setVars>>
    \/ CacheLookup(1) /\ UNCHANGED <<repoVars, bulkVars, sigVars, setVars>>
    \/ ConfiguredFetched(1) /\ UNCHANGED <<repoVars, bulkVars, setVars>>
    \/ ReadThresholds(1) /\ UNCHANGED <<repoVars, bulkVars, sigVars, setVars>>
    \/ ReadComplianceGroup(1) /\ UNCHANGED <<repoVars, bulkVars, sigVars, setVars>>
    \/ ReadMonitoredGroups(1) /\ UNCHANGED <<repoVars, bulkVars, sigVars, setVars>>
    \/ CacheSelect(1) /\ UNCHANGED <<repoVars, bulkVars, sigVars, setVars>>
    \/ CacheFlush(1) /\ UNCHANGED <<repoVars, bulkVars, sigVars, setVars>>
    \/ ConfiguredUpdateThresholds /\ UNCHANGED <<repoVars, bulkVars, sigVars>>
    \/ ConfiguredUpdateMonitoredGroups /\ UNCHANGED <<repoVars, bulkVars, sigVars>>
    \/ ConfiguredClockTick /\ UNCHANGED <<repoVars, bulkVars, sigVars, setVars>>

SpecConfigured == Init /\ [][NextConfigured]_vars

\* ------------------------------------------ set_thresholds, called directly
\* set_thresholds is called on a service with a database session and on one
\* without, with each of the three arguments given (within its range) or
\* omitted; each call on the service with a session is a request of its own.
OptionalHours == {None, Some(1), Some(12)}
SetThresholds ==
    \E check_in_hours \in OptionalHours, recon_hours \in OptionalHours,
       pending_command_hours \in OptionalHours :
          SettingsRequest("set_thresholds",
                          Some([check_in_hours |-> check_in_hours,
                                recon_hours |-> recon_hours,
                                pending_command_hours |-> pending_command_hours]),
                          set_thresholds(durable, check_in_hours, recon_hours,
                                         pending_command_hours),
                          set_thresholds(volatile, check_in_hours, recon_hours,
                                         pending_command_hours))

NextPartial ==
    \/ SetThresholds
    \/ GetThresholds

SpecPartial == Init /\ [][NextPartial]_vars

\* --------------------------------------------- the listing of a list request
\* One list request after the other. The token endpoint and the inventory
\* endpoint answer in every way; the fetches of the evaluations of the loop
\* are answered at once, the detail fetch with a device or with 404.
ListingTokenResponses ==
    {r \in TokenResponses : r.kind \in {"request_error", "non_200"}}
    \cup {[kind |-> "ok", expires_in |-> 1800]}
ListingInventories ==
    {None, Some(<<>>), Some(<<[id |-> 1]>>), Some(<<[id |-> 1], [id |-> 2]>>),
     Some(<<[id |-> 2], [id |-> 1]>>)}
ListingAnswers ==
    {r \in ApiResponses("get_all_computers") : r.status_code # 200}
    \cup {[kind |-> "status", status_code |-> 200, body |-> Some([results |-> l])] :
             l \in ListingInventories}
ListingEvalBodies(stage) ==
    CASE stage = "detail" ->
            {[general |-> Some(General(Some("mac1"), Some(DateString("iso_z", -3600)),
                                       Some(DateString("iso_z", -3600))))]}
      [] stage = "policies" -> {[policies |-> Some(<<[failed |-> Some(FALSE)]>>)]}
      [] stage = "commands" -> {[results |-> Some(<<>>)]}
      [] stage = "groups" -> {[memberships |-> Some(<<[name |-> Some("Compliance")]>>)]}
ListingEvalAnswers(stage) ==
    {[kind |-> "status", status_code |-> 200, body |-> Some(b)] :
        b \in ListingEvalBodies(stage)}
    \cup (IF stage = "detail"
          THEN {[kind |-> "status", status_code |-> HTTP_404_NOT_FOUND, body |-> None]}
          ELSE {})

ListingTokenAnswer ==
    /\ bulk.stage = "listing"
    /\ \E r \in ListingTokenResponses : ListingTokenRespond(r)
ListingApiAnswer ==
    /\ bulk.stage = "listing"
    /\ \E r \in ListingAnswers : ListingApiRespond(r)
\* health_service.py:147-182: a fetch of the evaluation is made and answered
ListingEvalFetched ==
    /\ bulk.stage = "loop"
    /\ ev[1].stage \in FetchStages
    /\ \E r \in ListingEvalAnswers(ev[1].stage) :
          TakeFetch(1, operation_result(StageOperation(ev[1].stage), r),
                    r.status_code # 200)
    /\ UNCHANGED <<now, ticks, clientVars, config, cache, written, evaluations>>
    /\ Collected

\* the steps of a list request that the event loop takes when they are ready
ListingProgress ==
    \/ ListingTokenAnswer
    \/ ListingApiAnswer
    \/ NextComputer
    \/ CacheLookup(1) /\ Collected
    \/ ListingEvalFetched
    \/ ReadThresholds(1) /\ Collected
    \/ ReadComplianceGroup(1) /\ Collected
    \/ ReadMonitoredGroups(1) /\ Collected
    \/ CacheSelect(1) /\ Collected
    \/ CacheFlush(1) /\ Collected
    \/ ListReturn(None)

NextListing ==
    \/ StartList
    \/ ListingProgress
    \/ Abandon
    \/ BulkClockTick

SpecListing == Init /\ [][NextListing]_vars

\* The request is one coroutine: every await of it ends (each request to the
\* API ends within its 30 s timeout, jamf_service.py:80-86), and the event
\* loop resumes the coroutine when the awaited call has ended.
FairSpecListing == SpecListing /\ WF_vars(ListingProgress)

\* ------------------------------------------- overlapping puts of one device
\* Two requests evaluate device 1 and write its record while the other does
\* the same: the records are those of a healthy device, of one that is not
\* compliant and of one that has not checked in
status_sample(device_id, check_in_ok, is_compliant, n) ==
    LET sample == sample_device_health(device_id, is_compliant, n)
        health == [sample.health EXCEPT !.check_in_ok = check_in_ok]
    IN  [sample EXCEPT !.health = health, !.status = calculate_status(health)]
StatusRecords(n) ==
    {status_sample(1, TRUE, TRUE, n), status_sample(1, TRUE, FALSE, n),
     status_sample(1, FALSE, TRUE, n)}

NextCacheStatus ==
    \/ \E s \in Sessions :
          GetCachedDevice(s, 1) /\ UNCHANGED <<now, ticks>> /\ CacheFrame
    \/ /\ cacheops < MaxOverlapOps
       /\ \E s \in Sessions, r \in StatusRecords(now) :
             CacheDeviceHealthSelect(s, r, cache_ttl_seconds)
       /\ UNCHANGED <<now, ticks>> /\ CacheFrame
    \/ \E s \in Sessions : CacheDeviceHealthFlush(s) /\ UNCHANGED <<now, ticks>> /\ CacheFrame
    \/ \E s \in Sessions : SessionCommit(s) /\ UNCHANGED <<now, ticks>> /\ CacheFrame

SpecCacheStatus == Init /\ [][NextCacheStatus]_vars

\* ------------------------------------- requests that update the thresholds
\* PUT /thresholds in requests that overlap, each with a session of its own
\* (database.py:43). The UPDATE of update_health_thresholds locks the table
\* rows against the writes of other sessions until the session commits or
\* rolls back: a second writer waits, or its statement fails when the wait is
\* refused (lock wait timeout, deadlock, "database is locked"). A SELECT reads
\* the committed rows and the session's own writes; under the snapshot
\* isolation of the production database (REPEATABLE READ) it reads the rows
\* as they were at the first SELECT of the transaction, except the rows the
\* session has written itself.
WriterBodies == {Thresholds(1, 1, 1), Thresholds(168, 168, 72)}
committed_thresholds == durable.db[1].health_thresholds
write_locked(s) == \E s2 \in Sessions \ {s} : thr[s2].writes # None

\* the table as a SELECT of session s finds it after its writes
current_view(s) == thr[s].writes[1]
snapshot_view(s) ==
    LET own == thr[s].writes[1].health_thresholds
        snapshot == thr[s].snapshot
        rows == committed_thresholds
    IN  [thr[s].writes[1] EXCEPT !.health_thresholds =
            [i \in 1..Len(own) |->
                IF i <= Len(snapshot) /\ ~rows[i].is_active THEN snapshot[i] ELSE own[i]]]

\* settings.py:34-43 and health_service.py:75: the body is valid, the request
\* begins and set_thresholds reads the current thresholds
BeginUpdate(s) ==
    /\ thr[s].stage = "idle"
    /\ setcalls < MaxSettingsRequests
    /\ setcalls' = setcalls + 1
    /\ \E body \in WriterBodies :
          LET current == get_thresholds(durable)
          IN  thr' = [thr EXCEPT ![s] =
                        IF current.outcome = "raise"
                        THEN [NoWriter EXCEPT !.stage = "answered", !.body = Some(body),
                                              !.result = current]
                        ELSE [NoWriter EXCEPT !.stage = "read", !.body = Some(body),
                                              !.snapshot = committed_thresholds]]
    /\ setlast' = NoSetLast
    /\ UNCHANGED <<durable, volatile, returned>>

\* health_service.py:83-88 and repositories.py:62-88: the active rows are
\* deactivated and the new row is inserted; set_thresholds returns
WriteThresholds(s) ==
    /\ thr[s].stage = "read"
    /\ ~write_locked(s)
    /\ LET body == thr[s].body[1]
       IN  /\ thr' = [thr EXCEPT ![s].stage = "written",
                                 ![s].writes =
                                     Some(update_health_thresholds(
                                             durable.db[1], body.check_in_hours,
                                             body.recon_hours,
                                             body.pending_command_hours))]
           /\ returned' = Some(body)
    /\ setlast' = NoSetLast
    /\ UNCHANGED <<durable, volatile, setcalls>>

\* repositories.py:71-75: the UPDATE is refused while another session holds
\* the lock; the exception leaves the request
WriteRefused(s) ==
    /\ thr[s].stage = "read"
    /\ write_locked(s)
    /\ thr' = [thr EXCEPT ![s].stage = "answered",
                          ![s].result = Raise("OperationalError", 0, "lock wait refused")]
    /\ setlast' = NoSetLast
    /\ UNCHANGED <<durable, volatile, setcalls, returned>>

\* settings.py:49: the route reads the thresholds for its answer
RereadThresholds(s) ==
    /\ thr[s].stage = "written"
    /\ \E view \in {current_view(s), snapshot_view(s)} :
          thr' = [thr EXCEPT ![s].stage = "answered",
                             ![s].result = get_thresholds([durable EXCEPT !.db = Some(view)])]
    /\ setlast' = NoSetLast
    /\ UNCHANGED <<durable, volatile, setcalls, returned>>

\* database.py:43-51: the request ends; its session commits, or rolls back
\* when an exception leaves the request
EndUpdate(s) ==
    /\ thr[s].stage = "answered"
    /\ durable' = IF thr[s].result.outcome = "return" /\ thr[s].writes # None
                  THEN [durable EXCEPT !.db = thr[s].writes]
                  ELSE durable
    /\ thr' = [thr EXCEPT ![s] = NoWriter]
    /\ setlast' = [NoSetLast EXCEPT !.route = "update_thresholds", !.body = thr[s].body,
                                    !.before = Some(durable), !.result = thr[s].result]
    /\ UNCHANGED <<volatile, setcalls, returned>>

\* settings.py:23-31: GET /thresholds in a request of its own
ReadThresholdsRequest ==
    /\ setlast' = [NoSetLast EXCEPT !.route = "get_thresholds",
                                    !.result = get_thresholds(durable)]
    /\ UNCHANGED <<durable, volatile, setcalls, thr, returned>>

WritersFrame == UNCHANGED <<now, ticks, clientVars, evalVars, repoVars, bulkVars, sigVars>>
NextWriters ==
    \/ \E s \in Sessions : BeginUpdate(s) /\ WritersFrame
    \/ \E s \in Sessions : WriteThresholds(s) /\ WritersFrame
    \/ \E s \in Sessions : WriteRefused(s) /\ WritersFrame
    \/ \E s \in Sessions : RereadThresholds(s) /\ WritersFrame
    \/ \E s \in Sessions : EndUpdate(s) /\ WritersFrame
    \/ ReadThresholdsRequest /\ WritersFrame

SpecWriters == Init /\ [][NextWriters]_vars

\* ---------------------------------------------------------------- claims

\* a caller takes the lock and runs the check of _get_token in this step
EntersLockedSection(c) ==
    pc[c] \in {"idle", "lock_wait"} /\ pc'[c] \in {"exchange", "request"}

\* C1: when no valid token is cached and callers invoke _get_token
\* concurrently, exactly one credential exchange is sent for all of them,
\* whatever lifetime the exchange returns (every exchange of the group is
\* answered with a token and a lifetime, no time passes, no 401 intervenes).
C1_OneExchangeForAll ==
    (burst.members # {} /\ burst.clean /\ burst.all_ok)
        => /\ burst.exchanges <= 1
           /\ burst.inside = {} => burst.exchanges = 1

\* C2: at most one credential exchange is outstanding, and a caller that
\* arrives while an exchange is in flight gets that exchange's result without
\* sending an exchange of its own.
C2_WaitersReuseTheExchange ==
    /\ Cardinality({c \in Callers : pc[c] = "exchange"}) <= 1
    /\ \A c \in Callers :
          (hist[c].arrived_in_flight /\ hist[c].clean) => hist[c].exchanged = 0

\* C3: every token _get_token returns has, when it is returned, more than
\* the 5-minute margin left before its expiry, from the cache or fresh.
C3_MarginLeftAtReturn ==
    \A c \in Callers : hist[c].returned => hist[c].left[1] > Margin

\* C4: with a cached (non-empty) token whose expiry is more than 5 minutes
\* after now, _get_token returns that token, sends no credential exchange and
\* leaves the cached token and expiry unchanged.
C4_CachedTokenReturned ==
    [][\A c \in Callers :
        (/\ EntersLockedSection(c)
         /\ token # None /\ token # Some(EmptyStr)
         /\ token_expiry # None /\ token_expiry[1] > now + Margin)
        => /\ pc'[c] = "request"
           /\ bearer'[c] = token
           /\ hist'[c].exchanged = 0
           /\ token' = token
           /\ token_expiry' = token_expiry]_vars

C4_Witness ==
    \E c \in Callers : pc[c] = "request" /\ hist[c].from_cache /\ bearer[c] = token

\* C5: when a credential exchange fails (transport error, non-200 answer, or
\* an answer missing a token field), _get_token fails with the 503
\* authentication error and the cached token and expiry are what they were.
C5_FailedExchangeKeepsPair ==
    [][\A c \in Callers :
        (pc[c] = "exchange" /\ pc'[c] = "idle")
        => /\ last'.result.exc = "HTTPException"
           /\ last'.result.status = HTTP_503_SERVICE_UNAVAILABLE
           /\ token' = token
           /\ token_expiry' = token_expiry]_vars

\* C6: a 401 answer to any request clears the cached token and expiry, so
\* the next _get_token sends a fresh credential exchange, and no token the
\* API has rejected is returned from the cache.
C6_RejectionForcesExchange ==
    [][\A c \in Callers :
        /\ (pc[c] = "request" /\ pc'[c] = "idle"
                /\ last'.kind = "status" /\ last'.status_code = HTTP_401_UNAUTHORIZED)
            => (token' = None /\ token_expiry' = None)
        /\ (EntersLockedSection(c) /\ token = None)
            => (pc'[c] = "exchange" /\ hist'[c].exchanged = 1)
        /\ (EntersLockedSection(c) /\ pc'[c] = "request")
            => bearer'[c] \notin rejected]_vars

C6_Witness ==
    /\ rejected # {}
    /\ token = None
    /\ \E c \in Callers : pc[c] = "exchange"

\* C7 as stated: an authorization rejection is retried once with a freshly
\* exchanged token, so an operation fails with the 401 only after a second
\* consecutive rejection, its second request.
C7_RejectionRetriedOnce ==
    (last.result.exc = "HTTPException" /\ last.result.status = HTTP_401_UNAUTHORIZED)
        => last.requests = 2

\* C7 as amended: for each of the five read operations the first
\* authorization rejection makes the call fail with the 401 error; the
\* operation sends no second request, so no call issues more than one request.
C7_RejectionFailsTheCall ==
    /\ \A c \in Callers : requests[c] <= 1
    /\ (last.kind = "status" /\ last.status_code = HTTP_401_UNAUTHORIZED)
        => /\ last.op \in Operations
           /\ last.result = HTTPException(HTTP_401_UNAUTHORIZED, "Jamf authentication failed")
           /\ last.requests = 1
           /\ pc[last.caller] = "idle"

C7_Witness ==
    /\ last.kind = "status"
    /\ last.status_code = HTTP_401_UNAUTHORIZED
    /\ last.op = "get_mdm_commands"

\* C8: each of the five read operations fails with an error when the API
\* answers a non-success status other than 401; none returns an empty or
\* default result then.
C8_NonSuccessRaises ==
    (last.kind = "status" /\ last.status_code \notin {200, HTTP_401_UNAUTHORIZED})
        => last.result.outcome = "raise"

\* C9: if any of the four per-device fetches (detail, failed policies, mdm
\* commands, group memberships) fails, check_device_health fails with that
\* error, returns no record and leaves the cache row of the device as it was.
C9_FetchFailureFailsEvaluation ==
    evlast.fetch_failed
        => /\ evlast.result.outcome = "raise"
           /\ ~evlast.wrote
           /\ cache[evlast.computer_id] = evlast.cache_before

\* C10: with use_cache and a live cache row of the device, check_device_health
\* returns a record equal in every field (device, the six booleans, matched
\* groups, status and last_checked) to the record that was written, calls no
\* fetch and writes nothing to the cache.
C10_CachedRecordReturnedUnchanged ==
    evlast.from_cache
        => /\ evlast.use_cache
           /\ evlast.result = Return(written[evlast.computer_id][1])
           /\ evlast.upstream = 0
           /\ ~evlast.wrote
           /\ cache[evlast.computer_id] = evlast.cache_before

\* C11: get_cached_device never returns a row whose expires_at is at or before
\* now, after any sequence of puts, gets, sweeps and clock advances; a get
\* that follows a put returns the row of that put while less than the ttl
\* has passed since the put, and nothing once the ttl has passed.
C11_GetRoundTrip ==
    slast.op = "get"
        => /\ slast.result.value[1] # None
                => slast.result.value[1][1].expires_at > now
           /\ slast.result.value[1] =
                IF slast.entry # None /\ now < slast.entry[1].expires_at
                THEN slast.entry
                ELSE None

C11_Witness ==
    /\ slast.op = "get"
    /\ slast.result.value[1] # None
    /\ slast.entry = slast.result.value[1]
    /\ now > slast.entry[1].cached_at

\* C12: after any puts, also puts for one device id by overlapping requests,
\* the table holds at most one row per device id, and the row that can be
\* read after two puts for the same id is the row of the later put.
C12_LaterPutIsTheEntry ==
    \A d \in DeviceIds : table[d] = latest[d]

\* C13: a get that overlaps a put for the same device returns the complete
\* previous row (or nothing) or the complete new row: the row it returns is
\* a row that one call of cache_device_health meant to write, never columns
\* of two of them and never the record of one with the expires_at of another.
C13_GetSeesCompleteRow ==
    (slast.op = "get" /\ slast.result.value[1] # None)
        => slast.result.value[1][1] \in complete[slast.device_id]

\* C14: on a cache miss or with use_cache false, a successful evaluation
\* writes its record to the cache with expires_at = time of the write + the
\* configured TTL, replacing the previous row of the device, and returns the
\* record it wrote: the row in the table after the cache_device_health of
\* the evaluation (health_service.py:211-215) is the row of its record.
C14_EvaluationWritesItsRecord ==
    (slast.op = "put" /\ slast.result.outcome = "return")
        => slast.result.value[1] = slast.entry[1]

\* the device ids of a list of computers, records or error entries
ComputerIds(computers) == {computers[k].id : k \in 1..Len(computers)}
RecordIds(records) == {records[k].device.id : k \in 1..Len(records)}
ErrorIds(errors) == {errors[k].device_id : k \in 1..Len(errors)}
Returned == blast.kind \in {"list", "summary"}

\* C15: every record a list request with use_cache true returns is less than
\* one cache TTL old: the evaluation that produced the record was made less
\* than cache_ttl_seconds before the moment the list is returned (here for
\* the records the request took from the cache).
C15_CachedRecordsAreFresh ==
    (Returned /\ blast.use_cache)
        => \A k \in 1..Len(blast.results) :
              blast.results[k].device.id \in blast.hits
                  => now - blast.evaluated[k] < cache_ttl_seconds

\* C16: check_all_devices does not raise when evaluations fail: the
\* exception of a device is put into errors and the loop goes on, the record
\* of a successful evaluation is put into results, and when the list is
\* returned every computer of the inventory has one record or one error entry.
C16_FailuresAreCollected ==
    /\ (evlast.caller = 1 /\ evlast.result.outcome = "raise")
          => /\ bulk.stage = "loop"
             /\ bulk.errors # <<>>
             /\ bulk.errors[Len(bulk.errors)].device_id = evlast.computer_id
    /\ (evlast.caller = 1 /\ evlast.result.outcome = "return")
          => /\ bulk.stage = "loop"
             /\ bulk.results # <<>>
             /\ bulk.results[Len(bulk.results)] = evlast.result.value[1]
    /\ Returned
          => /\ blast.result.outcome = "return"
             /\ Len(blast.results) + Len(blast.errors) = Len(blast.computers)
             /\ RecordIds(blast.results) \cup ErrorIds(blast.errors)
                    = ComputerIds(blast.computers)
             /\ RecordIds(blast.results) \cap ErrorIds(blast.errors) = {}

C16_Witness ==
    /\ Returned
    /\ blast.results # <<>>
    /\ blast.errors # <<>>
    /\ blast.errors[1].device_id = blast.computers[1].id

\* the number of records of the list with the status
NumberWithStatus(devices, status) ==
    Cardinality({k \in 1..Len(devices) : devices[k].status = status})

\* C17: the counts of the list and of the summary are taken over the
\* successfully evaluated devices only (with a status filter, over those of
\* them that have the status), no failed device is in the list, and
\* healthy + caution + unhealthy = total.
C17_CountsCoverTheEvaluated ==
    /\ blast.kind = "list"
          => LET r == blast.result.value[1]
                 kept == {k \in 1..Len(blast.results) :
                             \/ blast.status_filter = None
                             \/ blast.results[k].status = blast.status_filter[1]}
             IN  /\ r.healthy_count + r.caution_count + r.unhealthy_count = r.total
                 /\ r.total = Cardinality(kept)
                 /\ r.total = Len(r.devices)
                 /\ RecordIds(r.devices) \cap ErrorIds(blast.errors) = {}
                 /\ \A k \in 1..Len(r.devices) :
                       \E j \in kept : r.devices[k] = blast.results[j]
                 /\ r.healthy_count = NumberWithStatus(r.devices, "HEALTHY")
                 /\ r.caution_count = NumberWithStatus(r.devices, "CAUTION")
                 /\ r.unhealthy_count = NumberWithStatus(r.devices, "UNHEALTHY")
    /\ blast.kind = "summary"
          => LET r == blast.result.value[1]
             IN  /\ r.healthy + r.caution + r.unhealthy = r.total
                 /\ r.total = Len(blast.results)
                 /\ r.healthy = NumberWithStatus(blast.results, "HEALTHY")
                 /\ r.caution = NumberWithStatus(blast.results, "CAUTION")
                 /\ r.unhealthy = NumberWithStatus(blast.results, "UNHEALTHY")

C17_Witness ==
    /\ blast.kind = "list"
    /\ blast.status_filter = Some("CAUTION")
    /\ blast.errors # <<>>
    /\ blast.result.value[1].total = 1
    /\ Len(blast.results) = 1

\* C18: when a list request is abandoned after devices were evaluated, the
\* rows those evaluations wrote stay in the cache for later requests.
C18_AbandonKeepsCacheWrites ==
    blast.kind = "abandoned"
        => \A d \in blast.wrote : cache[d] = blast.view[d]

\* C19: the evaluations of a list request are concurrent: while the
\* upstream call of one device is awaited, the evaluation of every other
\* computer of the inventory has been started.
C19_StuckDeviceDelaysNoStart ==
    (bulk.stage = "loop" /\ pc[1] = "request")
        => bulk.i = Len(bulk.computers)

\* C20: whenever check_in_ok or recon_ok is false, or has_failed_policies,
\* has_failed_mdm_commands or has_pending_mdm_commands is true, the status is
\* UNHEALTHY, whatever is_compliant and the matched groups are.
C20_UnhealthyTakesPrecedence ==
    evlast.result.outcome = "return"
        => LET health == evlast.result.value[1].health
           IN  (\/ ~health.check_in_ok
                \/ ~health.recon_ok
                \/ health.has_failed_policies
                \/ health.has_failed_mdm_commands
                \/ health.has_pending_mdm_commands)
                   => evlast.result.value[1].status = "UNHEALTHY"

C20_Witness ==
    /\ evlast.result.outcome = "return"
    /\ evlast.result.value[1].health =
          [check_in_ok |-> TRUE, recon_ok |-> TRUE, has_failed_policies |-> FALSE,
           has_failed_mdm_commands |-> FALSE, has_pending_mdm_commands |-> TRUE,
           is_compliant |-> FALSE, smart_group_memberships |-> <<"Watch", "Lab">>]
    /\ evlast.result.value[1].status = "UNHEALTHY"

\* no signal that makes a device unhealthy is raised
NoUnhealthySignal(health) ==
    /\ health.check_in_ok
    /\ health.recon_ok
    /\ ~health.has_failed_policies
    /\ ~health.has_failed_mdm_commands
    /\ ~health.has_pending_mdm_commands

\* C21: with check_in_ok and recon_ok true and the three failure booleans
\* false, the status is CAUTION exactly when the device is not compliant or
\* the matched monitored groups are not empty, and HEALTHY otherwise.
C21_CautionIffNotCompliantOrMatched ==
    evlast.result.outcome = "return"
        => LET health == evlast.result.value[1].health
               status == evlast.result.value[1].status
           IN  NoUnhealthySignal(health)
                  => /\ status \in {"CAUTION", "HEALTHY"}
                     /\ status = "CAUTION"
                           <=> (~health.is_compliant
                                \/ health.smart_group_memberships # <<>>)

C21_Witness ==
    /\ evlast.result.outcome = "return"
    /\ NoUnhealthySignal(evlast.result.value[1].health)
    /\ evlast.result.value[1].health.is_compliant
    /\ evlast.result.value[1].health.smart_group_memberships = <<"Watch">>
    /\ evlast.result.value[1].status = "CAUTION"

\* C22: classification never raises: an evaluation whose fetches were all
\* answered ends with a record whatever the timestamps of the answers are, so
\* the only exception an evaluation ends with is the HTTPException of a fetch.
C22_ClassificationNeverRaises ==
    evlast.result.outcome = "raise" => evlast.result.exc = "HTTPException"

\* C23: a single evaluation uses one value of now: all the comparisons of an
\* evaluation that has ended read the same time.
C23_OneNowPerEvaluation ==
    evlast.result.outcome # "none"
        => \A i, j \in DOMAIN clock_reads : clock_reads[i] = clock_reads[j]

\* the step of check_device_health that judges check-in and recon
JudgesContact == ev[1].stage = "thresholds" /\ ev'[1].stage # "thresholds"
\* a timestamp is present and less than threshold_hours old at time n
WithinHours(timestamp, threshold_hours, n) ==
    timestamp # None /\ n - timestamp[1].t < Hours(threshold_hours)

\* C29: the step that judges them finds check_in_ok true exactly when
\* last_contact_time is present and less than check_in_hours old, and
\* recon_ok true exactly when last_inventory_update is present and less than
\* recon_hours old.
C29_RecentExactlyWithinThreshold ==
    [][JudgesContact
         => LET info == ev[1].device_info[1]
                judged == ev'[1].stage = "policies"
            IN  /\ (judged /\ ev'[1].signals.check_in_ok)
                      <=> WithinHours(info.last_contact_time,
                                      config.thresholds.check_in_hours, now)
                /\ (judged /\ ev'[1].signals.recon_ok)
                      <=> WithinHours(info.last_inventory_update,
                                      config.thresholds.recon_hours, now)]_vars

\* the step of check_device_health that judges the listed commands
JudgesCommands == ev[1].stage = "commands" /\ ev'[1].stage # "commands"
\* a command with this status was issued, by a date that carries a zone, more
\* than threshold_hours before n
StaleCommand(cmd, statuses, threshold_hours, n) ==
    LET cmd_date == parse_jamf_date(cmd.dateIssued)
    IN  /\ cmd.status \in statuses
        /\ cmd_date # None
        /\ cmd_date[1].tzinfo
        /\ cmd_date[1].t < n - Hours(threshold_hours)

\* C30: the step that judges them finds has_pending_mdm_commands true exactly
\* when a listed command with status Pending was issued more than
\* pending_command_hours ago; no command with another status makes it true.
C30_PendingIffStalePendingCommand ==
    [][JudgesCommands
         => ((ev'[1].stage = "groups" /\ ev'[1].signals.has_pending_mdm_commands)
               <=> \E i \in DOMAIN mdm_results' :
                      StaleCommand(mdm_results'[i], {Some("Pending")},
                                   config.thresholds.pending_command_hours, now))]_vars

\* the three values are within the ranges of the thresholds
InRange(t) ==
    /\ t.check_in_hours \in 1..168
    /\ t.recon_hours \in 1..168
    /\ t.pending_command_hours \in 1..72

\* C24: the thresholds in force are always within range: get_thresholds
\* returns, and returns values in range, after every sequence of requests; a
\* request to set a value out of range is answered 422 and leaves the stored
\* thresholds as they were, a request to set values in range returns them.
C24_ThresholdsStayInRange ==
    /\ get_thresholds(durable).outcome = "return"
    /\ InRange(get_thresholds(durable).value[1])
    /\ setlast.route = "get_thresholds"
          => setlast.result.outcome = "return" /\ InRange(setlast.result.value[1])
    /\ setlast.route = "update_thresholds"
          => IF InRange(setlast.body[1])
             THEN setlast.result = Return(setlast.body[1])
             ELSE /\ setlast.result.outcome = "raise"
                  /\ setlast.result.status = HTTP_422_UNPROCESSABLE_ENTITY
                  /\ durable = setlast.before[1]

C24_Witness ==
    /\ setlast.route = "update_thresholds"
    /\ setlast.body[1] = Thresholds(24, 24, 73)
    /\ setlast.result.status = HTTP_422_UNPROCESSABLE_ENTITY
    /\ get_thresholds(durable) = Return(Thresholds(168, 168, 72))

\* C27: a value that is set is the value that is read: the answer of a
\* request that sets the compliance group, the monitored groups or the
\* thresholds carries the value of its body, the empty string and the empty
\* list included.
C27_SetThenGetReturnsTheValue ==
    /\ setlast.route = "update_monitored_groups"
          => /\ setlast.body[1].compliance_group # None
                  => setlast.result.value[1].compliance_group
                        = setlast.body[1].compliance_group[1]
             /\ setlast.body[1].monitored_groups # None
                  => setlast.result.value[1].monitored_groups
                        = setlast.body[1].monitored_groups[1]
    /\ setlast.route = "update_thresholds" /\ setlast.result.outcome = "return"
          => setlast.result.value[1] = setlast.body[1]

\* C28: after the same calls the getters of the service with a database
\* session and of the service without one return the same values.
C28_VariantsAnswerAlike ==
    /\ get_thresholds(durable) = get_thresholds(volatile)
    /\ get_compliance_group_name(durable) = get_compliance_group_name(volatile)
    /\ get_monitored_groups(durable) = get_monitored_groups(volatile)

\* a step in which the flush of clear_expired_cache ends the sweep
SweepEnds == sess[1].stage = "sweep_flush" /\ sess'[1].stage = "idle"
\* a step in which a get or a put of the repository returns
GetOrPutEnds == slast'.op \in {"get", "put"}

EvaluationFails == ev[1].stage # "idle" /\ evlast'.result.outcome = "raise"
\* the status that tells the kind of the answer that made the evaluation fail;
\* the kind is "none" when the token exchange failed and no request was sent
KindStatus(answer) ==
    CASE answer.kind = "timeout" -> HTTP_504_GATEWAY_TIMEOUT
      [] answer.kind \in {"request_error", "none"} -> HTTP_503_SERVICE_UNAVAILABLE
      [] answer.kind = "status" /\ answer.status_code = HTTP_401_UNAUTHORIZED
            -> HTTP_401_UNAUTHORIZED
      [] answer.kind = "status" /\ answer.status_code = HTTP_404_NOT_FOUND
            -> HTTP_404_NOT_FOUND
      [] OTHER -> HTTP_502_BAD_GATEWAY

\* C25: an evaluation that fails ends with the first error it met, as the
\* client raised it: no fetch before the failing one was answered with an
\* error, the exception is the one of the failing fetch, and its status tells
\* not found, timeout, upstream error status, rejected token and unavailable
\* authentication apart.
C25_FirstErrorSurfacesUnmodified ==
    [][EvaluationFails
         => /\ ~ev[1].fetch_failed
            /\ evlast'.result = last'.result
            /\ evlast'.result.exc = "HTTPException"
            /\ evlast'.result.status = KindStatus(last')]_vars

\* C31: the matched monitored groups of a record are exactly the memberships
\* of the device that are in the monitored groups and differ from the
\* compliance group; a device with no other finding that is compliant and
\* whose only monitored membership is the compliance group itself is HEALTHY.
GroupNames == {"Compliance", "Watch", "Staff"}
BuildsRecord == ev[1].stage = "monitored_groups" /\ ev'[1].stage = "cache_select"
NoFinding(health) ==
    /\ health.check_in_ok
    /\ health.recon_ok
    /\ ~health.has_failed_policies
    /\ ~health.has_failed_mdm_commands
    /\ ~health.has_pending_mdm_commands
C31_MatchedGroupsExcludeCompliance ==
    [][BuildsRecord =>
        LET record == ev'[1].device_health[1]
            matched == record.health.smart_group_memberships
            memberships == ev[1].group_memberships
            compliance_group == ev[1].compliance_group[1]
            Monitored(g) == InList(g, memberships) /\ InList(g, config.monitored_groups)
        IN  /\ \A g \in GroupNames :
                  InList(g, matched) <=> (Monitored(g) /\ g # compliance_group)
            /\ (/\ NoFinding(record.health)
                /\ record.health.is_compliant
                /\ \A g \in GroupNames : Monitored(g) => g = compliance_group)
               => record.status = "HEALTHY"]_vars
C31_Witness ==
    /\ ev[1].stage = "cache_select"
    /\ InList(ev[1].compliance_group[1], config.monitored_groups)
    /\ InList(ev[1].compliance_group[1], ev[1].group_memberships)
    /\ ev[1].device_health[1].health.is_compliant
    /\ ev[1].device_health[1].health.smart_group_memberships = <<>>
    /\ ev[1].device_health[1].status = "HEALTHY"

\* C39: one evaluation judges against one read of the thresholds: check-in and
\* recon are judged with the thresholds in force at the read, the pending
\* commands with the same thresholds whatever settings requests commit in
\* between, the thresholds are read once, and the record carries the three
\* judgements unchanged.
OneThresholdsRead ==
    (ev[1].stage \notin {"idle", "cache_lookup", "detail", "thresholds"}
     /\ ev'[1].stage # "idle")
        => ev'[1].thresholds = ev[1].thresholds
C39_OneThresholdsVersionPerRecord ==
    [][/\ (JudgesContact /\ ev'[1].stage = "policies")
            => LET info == ev[1].device_info[1]
                   thresholds == ev'[1].thresholds[1]
               IN  /\ thresholds = config.thresholds
                   /\ ev'[1].signals.check_in_ok
                         <=> WithinHours(info.last_contact_time,
                                         thresholds.check_in_hours, now)
                   /\ ev'[1].signals.recon_ok
                         <=> WithinHours(info.last_inventory_update,
                                         thresholds.recon_hours, now)
       /\ (JudgesCommands /\ ev'[1].stage = "groups")
            => (ev'[1].signals.has_pending_mdm_commands
                  <=> \E i \in DOMAIN mdm_results' :
                         StaleCommand(mdm_results'[i], {Some("Pending")},
                                      ev[1].thresholds[1].pending_command_hours, now))
       /\ OneThresholdsRead
       /\ BuildsRecord
            => LET health == ev'[1].device_health[1].health
               IN  /\ health.check_in_ok = ev[1].signals.check_in_ok
                   /\ health.recon_ok = ev[1].signals.recon_ok
                   /\ health.has_pending_mdm_commands
                         = ev[1].signals.has_pending_mdm_commands]_vars
C39_Witness ==
    /\ ev[1].stage = "groups"
    /\ config.thresholds # ev[1].thresholds[1]
    /\ mdm_results # <<>>
    /\ ~ev[1].signals.has_pending_mdm_commands
    /\ StaleCommand(mdm_results[1], {Some("Pending")},
                    config.thresholds.pending_command_hours, now)

\* C40: a settings request leaves the cached rows as they are; while the row
\* of a device has not expired, an evaluation with use_cache returns the
\* health and the status that were written, whatever the configuration is by
\* then; an evaluation without use_cache never returns the cached row, and one
\* during which no settings request committed returns a record classified
\* under the configuration that is stored when it returns.
SettingsCommit == setcalls' # setcalls
CachedRead == ev[1].stage = "cache_lookup" /\ ev'[1].stage = "idle"
LiveRow == cache[1] # None /\ cache[1][1].expires_at > now
FreshReturn == ev[1].stage = "cache_flush" /\ ev'[1].stage = "idle"
C40_ConfigurationChangeKeepsCache ==
    [][/\ SettingsCommit => cache' = cache
       /\ (ev[1].stage = "cache_lookup" /\ LiveRow /\ ev'[1] # ev[1]) => CachedRead
       /\ CachedRead
            => /\ evlast'.from_cache /\ evlast'.use_cache /\ LiveRow
               /\ evlast'.result.value[1].health = written[1][1].health
               /\ evlast'.result.value[1].status = written[1][1].status
       /\ (FreshReturn /\ ev[1].settings_before = setcalls)
            => LET record == evlast'.result.value[1]
                   memberships == ev[1].group_memberships
               IN  /\ ~evlast'.from_cache
                   /\ ev[1].thresholds = Some(config.thresholds)
                   /\ record.health.is_compliant
                         <=> InList(config.compliance_group, memberships)
                   /\ \A g \in GroupNames :
                         InList(g, record.health.smart_group_memberships)
                            <=> /\ InList(g, memberships)
                                /\ InList(g, config.monitored_groups)
                                /\ g # config.compliance_group
                   /\ record.status = calculate_status(record.health)
       /\ (ev[1].stage # "idle" /\ ~ev[1].use_cache /\ ev'[1].stage = "idle")
            => ~evlast'.from_cache]_vars
\* a cached record is returned as compliant while the stored compliance group
\* is one the device is not a member of
C40_Witness ==
    /\ evlast.from_cache
    /\ evlast.result.value[1].health.is_compliant
    /\ config.compliance_group = "Staff"
    /\ setcalls > 0

\* C32: a 401 answer to a request that carried a token other than the cached
\* one (the cached token was replaced while the request was in flight) leaves
\* the cached token and its expiry in place.
C32_RejectionDropsOnlyItsToken ==
    [][\A c \in Callers :
        (/\ pc[c] = "request" /\ pc'[c] = "idle"
         /\ last'.kind = "status" /\ last'.status_code = HTTP_401_UNAUTHORIZED
         /\ token # None
         /\ bearer[c] # token)
        => (token' = token /\ token_expiry' = token_expiry)]_vars

\* C36: when the listing of the inventory fails (the token exchange fails, the
\* request times out or cannot be sent, or the answer is a 401 or another
\* non-200 status) the list request fails with the error of the listing, no
\* device is evaluated and no cache row is written.
ListingEnds == bulk.stage = "listing" /\ pc[1] # "idle" /\ pc'[1] = "idle"
C36_FailedListingFailsTheRequest ==
    [][(ListingEnds /\ ~(last'.kind = "status" /\ last'.status_code = 200))
        => /\ bulk'.stage = "idle"
           /\ blast'.kind = "failed"
           /\ blast'.result.outcome = "raise"
           /\ blast'.result = last'.result
           /\ blast'.results = <<>> /\ blast'.errors = <<>>
           /\ blast'.wrote = {} /\ blast'.hits = {}
           /\ evaluations' = evaluations
           /\ ev' = ev
           /\ cache' = cache
           /\ table' = table]_vars
C36_Witness ==
    /\ blast.kind = "failed"
    /\ blast.result.status = HTTP_502_BAD_GATEWAY
    /\ cache[1] # None
    /\ evaluations > 0

\* C35: a list request evaluates the computers of the inventory one by one
\* in the order of the inventory, each once; when it returns, the records and
\* the recorded failures together are as many as the computers and the
\* records are in the order of the inventory; and every list request ends.
InventoryIds(computers) == [k \in 1..Len(computers) |-> computers[k].id]
EvaluationStarts == ev[1].stage = "idle" /\ ev'[1].stage # "idle"
C35_CountsAndOrder ==
    blast.kind = "list"
        => LET Evaluated(d) == d \notin ErrorIds(blast.errors)
               Failed(d) == d \in ErrorIds(blast.errors)
               ids == InventoryIds(blast.computers)
           IN  /\ Len(blast.results) + Len(blast.errors) = Len(blast.computers)
               /\ [k \in 1..Len(blast.results) |-> blast.results[k].device.id]
                     = SelectSeq(ids, Evaluated)
               /\ [k \in 1..Len(blast.errors) |-> blast.errors[k].device_id]
                     = SelectSeq(ids, Failed)
C35_EveryDeviceOnceAndTerminates ==
    /\ []C35_CountsAndOrder
    /\ [][/\ EvaluationStarts
               => /\ bulk.stage = "loop"
                  /\ bulk'.i = bulk.i + 1
                  /\ ev'[1].computer_id = bulk.computers[bulk'.i].id
          /\ (bulk.stage = "loop" /\ blast'.kind = "list")
               => bulk.i = Len(bulk.computers)
          /\ (bulk.stage = "loop" /\ bulk'.stage = "loop")
               => (bulk'.i >= bulk.i /\ bulk'.computers = bulk.computers)]_vars
    /\ (bulk.stage # "idle") ~> (bulk.stage = "idle")
C35_Witness ==
    /\ blast.kind = "list"
    /\ Len(blast.computers) = 2
    /\ blast.computers[1].id = 2
    /\ Len(blast.results) = 2
    /\ blast.results[1].device.id = 2

\* C33: the lock of _get_token is held only while an exchange is in flight and
\* is released when the exchange ends, by a return or by an exception; every
\* caller that waits for the lock eventually gets it.
C33_EveryWaiterEnters ==
    /\ [](lock # 0 => pc[lock] = "exchange")
    /\ [][\A c \in Callers :
            (pc[c] = "exchange" /\ pc'[c] # "exchange") => lock' = 0]_vars
    /\ \A c \in Callers : (pc[c] = "lock_wait") ~> (pc[c] # "lock_wait")
\* a caller waits, and the exchange of the holder has just failed
C33_Witness ==
    /\ waiters # <<>>
    /\ lock = 0
    /\ last.kind = "none"
    /\ last.result.outcome = "raise"

\* C38: after set_thresholds every threshold that was given has the given
\* value and every threshold that was omitted has the value get_thresholds
\* returned immediately before the call, on a service with a database session
\* and on one without.
KeepsOmitted(body, before, after) ==
    /\ after.outcome = "return"
    /\ after.value[1].check_in_hours
          = IF body.check_in_hours # None THEN body.check_in_hours[1]
            ELSE before.value[1].check_in_hours
    /\ after.value[1].recon_hours
          = IF body.recon_hours # None THEN body.recon_hours[1]
            ELSE before.value[1].recon_hours
    /\ after.value[1].pending_command_hours
          = IF body.pending_command_hours # None THEN body.pending_command_hours[1]
            ELSE before.value[1].pending_command_hours
C38_OmittedThresholdsKeepTheirValue ==
    [][(setcalls' # setcalls /\ setlast'.route = "set_thresholds")
        => /\ KeepsOmitted(setlast'.body[1], get_thresholds(durable),
                           get_thresholds(durable'))
           /\ KeepsOmitted(setlast'.body[1], get_thresholds(volatile),
                           get_thresholds(volatile'))]_vars
\* a call that omits the check-in hours when they are not the default
C38_Witness ==
    /\ setlast.route = "set_thresholds"
    /\ setlast.body[1].check_in_hours = None
    /\ setlast.body[1].recon_hours # None
    /\ get_thresholds(setlast.before[1]).value[1].check_in_hours = 12
    /\ get_thresholds(durable).value[1].check_in_hours = 12
    /\ get_thresholds(volatile).value[1].check_in_hours = 12

\* the active rows of the committed table
ActiveThresholds ==
    {i \in DOMAIN committed_thresholds : committed_thresholds[i].is_active}
\* what get_thresholds gives for the values v, or for the defaults without any
ThresholdsAnswer(v) ==
    IF v = None
    THEN HealthThresholds(check_in_threshold_hours, recon_threshold_hours,
                          pending_command_threshold_hours)
    ELSE Return(v[1])

\* C37: whatever way requests that set the thresholds interleave, at most
\* one threshold row is active, and get_thresholds, in a request of its own
\* or in the route after set_thresholds, returns the values of the
\* set_thresholds call that completed last.
C37_LastCompletedSetIsRead ==
    /\ Cardinality(ActiveThresholds) <= 1
    /\ setlast.route = "get_thresholds" => setlast.result = ThresholdsAnswer(returned)
    /\ \A s \in Sessions :
          (thr[s].stage = "answered" /\ thr[s].writes # None)
             => thr[s].result = ThresholdsAnswer(returned)

\* C34: the record built from a cached row has the status that the status
\* rule gives for the six booleans and the matched groups of the same record.
C34_StatusAgreesWithBooleans ==
    (slast.op = "get" /\ slast.result.value[1] # None)
        => LET record == device_health_from_cache(slast.result.value[1][1])
           IN  record.status = calculate_status(record.health)

====
